---- MODULE Spec2Model ----
(***************************************************************************)
(* Time tracking core of tonosama/time_tracking: the append-only event log *)
(* (InMemoryTimeEntryRepository), the derivation of TimeEntry intervals    *)
(* from it, and the timer service (TimeTrackingServiceImpl) on top.        *)
(*                                                                         *)
(* Timestamps are counted in clock ticks, TicksPerSecond ticks to a        *)
(* second, so that chrono's Duration::num_seconds() (truncation to whole   *)
(* seconds) is a real conversion.  Option<T> is a sequence of length 0     *)
(* (None) or 1 (Some(x)).                                                  *)
(***************************************************************************)
EXTENDS Integers, Sequences, FiniteSets, TLC

\* ---------------------------------------------------------------- bounds
MaxTask == 2
MaxTime == 2
MaxEvents == 4
TicksPerSecond == 2
MaxProcs == 2
MaxStored == 3
MaxProject == 2
MaxVersions == 3
MaxTaskVersions == 3

Tasks == 1..MaxTask
Times == 0..MaxTime
Notes == {<<>>, <<"memo">>}
Procs == 1..MaxProcs
ProjectIds == 1..MaxProject
Names == {"a", "b"}
CommandNames == Names \cup {"a "}

None == <<>>
Some(x) == <<x>>
is_some(o) == Len(o) = 1
is_none(o) == Len(o) = 0

VARIABLES
    events,     \* InMemoryTimeEntryRepository.events: the Vec of stored events
    next_id,    \* InMemoryTimeEntryRepository.next_id
    now,        \* the wall clock read by Utc::now(), in ticks
    last,       \* the service call whose result is being handed back: its
                \* arguments, the log it started from and what it returned
    pc,         \* per caller: where its service call stands ("idle": between calls)
    loc,        \* per caller: the arguments, locals and result of its call
    db,         \* the SQLite database: the tables projects, project_versions,
                \* tasks and task_versions
    issued,     \* the ids the next_id calls returned so far, oldest first
    lock        \* the tokio Mutex around the DatabaseConnection: the caller
                \* that holds its guard, 0 when it is free

vars == <<events, next_id, now, last, pc, loc, db, issued, lock>>

\* ------------------------------------------------- TimeEntryEvent, TimeEntry
TimeEntryEvent_start_at(task_id, at) ==
    [id |-> None, task_id |-> task_id, event_type |-> "start", at |-> at,
     start_event_id |-> None, payload |-> None]

TimeEntryEvent_start(task_id, clock) == TimeEntryEvent_start_at(task_id, clock)

\* mutant: the Stop loses the reference to the Start it closes
TimeEntryEvent_stop_at_unlinked(task_id, start_event_id, at) ==
    [id |-> None, task_id |-> task_id, event_type |-> "stop", at |-> at,
     start_event_id |-> None, payload |-> None]

TimeEntryEvent_stop_at(task_id, start_event_id, at) ==
    [id |-> None, task_id |-> task_id, event_type |-> "stop", at |-> at,
     start_event_id |-> Some(start_event_id), payload |-> None]

TimeEntryEvent_stop(task_id, start_event_id, clock) ==
    TimeEntryEvent_stop_at(task_id, start_event_id, clock)

TimeEntryEvent_annotate(task_id, start_event_id, note, clock) ==
    [id |-> None, task_id |-> task_id, event_type |-> "annotate", at |-> clock,
     start_event_id |-> Some(start_event_id), payload |-> Some(note)]

with_id(event, id) == [event EXCEPT !.id = Some(id)]

is_start(e) == e.event_type = "start"
is_stop(e) == e.event_type = "stop"
is_annotate(e) == e.event_type = "annotate"

\* mutant: the duration is left in clock ticks (num_milliseconds for num_seconds)
num_seconds_in_ticks(ticks) == ticks

\* chrono::Duration::num_seconds: whole seconds, truncated towards zero
num_seconds(ticks) ==
    IF ticks >= 0 THEN ticks \div TicksPerSecond
                  ELSE -((-ticks) \div TicksPerSecond)

TimeEntry_new(task_id, start_event_id, start_time, end_time) ==
    [task_id |-> task_id, start_event_id |-> start_event_id,
     start_time |-> start_time, end_time |-> end_time,
     duration_in_seconds |->
        IF is_some(end_time) THEN Some(num_seconds(end_time[1] - start_time))
                             ELSE None]

is_running(entry) == is_none(entry.end_time)
is_completed(entry) == is_some(entry.end_time)

\* ------------------------------------------- InMemoryTimeEntryRepository
\* A store is [events, next_id]; every operator below is a pure function of it.

\* generate_id: the current counter value, and the counter advanced by one
generate_id(store) == [id |-> store.next_id, next_id |-> store.next_id + 1]

\* save_event: stamps a fresh id on the event and pushes it on the Vec
save_event(store, event) ==
    LET g == generate_id(store)
        saved == with_id(event, g.id)
    IN  [events |-> Append(store.events, saved), next_id |-> g.next_id,
         saved |-> saved]

\* the repository a save_event call leaves behind
store_of(r) == [events |-> r.events, next_id |-> r.next_id]

\* Iterator::find: of the positions that satisfy the test, the first (0: none)
find_first_index(hits) ==
    IF hits = {} THEN 0 ELSE CHOOSE i \in hits : \A j \in hits : i <= j

\* the HashMap start_events of build_time_entries: id -> Start event (a later
\* insert under the same key replaces the earlier one)
start_event_ids(evs) ==
    {evs[i].id[1] : i \in {j \in 1..Len(evs) : is_start(evs[j]) /\ is_some(evs[j].id)}}

start_event_of(evs, start_id) ==
    LET idx == {j \in 1..Len(evs) :
                   is_start(evs[j]) /\ evs[j].id = Some(start_id)}
        lastIdx == CHOOSE j \in idx : \A k \in idx : k <= j
    IN  evs[lastIdx]

\* the interval derived for one Start event: closed by the first Stop of the
\* Vec that references it
entry_of(evs, start_id) ==
    LET start_event == start_event_of(evs, start_id)
        k == find_first_index({i \in 1..Len(evs) :
                 is_stop(evs[i]) /\ evs[i].start_event_id = Some(start_id)})
        end_time == IF k = 0 THEN None ELSE Some(evs[k].at)
    IN  TimeEntry_new(start_event.task_id, start_id, start_event.at, end_time)

time_entries(evs) == {entry_of(evs, sid) : sid \in start_event_ids(evs)}

\* build_time_entries: the entries sorted by start_time, newest first.  The
\* entries are collected by iterating a HashMap and the sort is stable, so
\* entries with equal start_time come in any order: the operator is the set of
\* the vectors the call can return.
build_time_entries(evs) ==
    LET S == time_entries(evs)
        n == Cardinality(S)
    IN  {f \in [1..n -> S] :
            /\ \A i, j \in 1..n : i # j => f[i] # f[j]
            /\ \A i, j \in 1..n : i < j => f[i].start_time >= f[j].start_time}

\* Iterator::find as an Option: the element at the first of the positions
find_opt(seq, hits) ==
    LET k == find_first_index(hits)
    IN  IF k = 0 THEN None ELSE Some(seq[k])

\* The queries take the vector build_time_entries returned;
\* Iterator::filter().collect() is SelectSeq.
find_running_entries(entries) == SelectSeq(entries, is_running)

\* mutant: the task filter is dropped, any running entry is found
find_running_entry_of_any_task(entries, task_id) ==
    find_opt(entries, {i \in 1..Len(entries) : is_running(entries[i])})

find_running_entry_by_task(entries, task_id) ==
    find_opt(entries, {i \in 1..Len(entries) :
                          entries[i].task_id = task_id /\ is_running(entries[i])})

find_entries_by_task(entries, task_id) ==
    LET test(e) == e.task_id = task_id
    IN  SelectSeq(entries, test)

\* mutant: the overlap test is closed at both ends (<= and >= for < and >)
find_overlapping_entries_closed(entries, task_id, start, end) ==
    LET test(e) ==
            /\ e.task_id = task_id
            /\ e.start_time <= end
            /\ (is_none(e.end_time) \/ e.end_time[1] >= start)
    IN  SelectSeq(entries, test)

find_overlapping_entries(entries, task_id, start, end) ==
    LET test(e) ==
            /\ e.task_id = task_id
            /\ e.start_time < end
            /\ (is_none(e.end_time) \/ e.end_time[1] > start)
    IN  SelectSeq(entries, test)

\* ------------------------------------------------- TimeTrackingServiceImpl
\* Each operation is the set of its outcomes [events, next_id, ret, err] on a
\* store at clock reading `clock`: one outcome for each order in which
\* build_time_entries can hand back entries of equal start_time.  ret is what
\* the call returns, as a vector: the saved events, or the task found.

outcome(store, ret, err) ==
    [events |-> store.events, next_id |-> store.next_id, ret |-> ret, err |-> err]

\* mutant: step 1 is missing, only the task's own entry is ever stopped
stop_other_tasks_skipped(store, running_entries, task_id, clock) == store

\* start_timer, step 1: the loop that stops the running entries of other tasks
RECURSIVE stop_other_tasks(_, _, _, _)
stop_other_tasks(store, running_entries, task_id, clock) ==
    IF Len(running_entries) = 0 THEN store
    ELSE LET entry == Head(running_entries)
             stop_event ==
                 TimeEntryEvent_stop(entry.task_id, entry.start_event_id, clock)
             next == IF entry.task_id # task_id
                     THEN store_of(save_event(store, stop_event))
                     ELSE store
         IN  stop_other_tasks(next, Tail(running_entries), task_id, clock)

\* mutant: step 2 is missing, a restart leaves the old entry open
stop_same_task_skipped(store, running_for_task, task_id, clock) == store

\* start_timer, step 2: the implicit stop of the task's own running entry
stop_same_task(store, running_for_task, task_id, clock) ==
    IF is_some(running_for_task)
    THEN store_of(save_event(store,
             TimeEntryEvent_stop(task_id, running_for_task[1].start_event_id, clock)))
    ELSE store

start_timer(store, task_id, clock) ==
    UNION {
        LET s1 == stop_other_tasks(store, find_running_entries(es1), task_id, clock)
        IN  { LET s2 == stop_same_task(s1, find_running_entry_by_task(es2, task_id),
                                       task_id, clock)
                  r == save_event(s2, TimeEntryEvent_start(task_id, clock))
              IN  outcome(store_of(r), <<r.saved>>, "")
              : es2 \in build_time_entries(s1.events) }
        : es1 \in build_time_entries(store.events) }

stop_timer(store, task_id, clock) ==
    { LET running_entry == find_running_entry_by_task(es, task_id)
      IN  IF is_some(running_entry)
          THEN LET r == save_event(store,
                       TimeEntryEvent_stop(task_id, running_entry[1].start_event_id, clock))
               IN  outcome(store_of(r), <<r.saved>>, "")
          ELSE outcome(store, <<>>, "")
      : es \in build_time_entries(store.events) }

get_running_task(store) ==
    { LET running_entries == find_running_entries(es)
      IN  outcome(store,
                  IF Len(running_entries) > 0 THEN <<running_entries[1].task_id>>
                                              ELSE <<>>,
                  "")
      : es \in build_time_entries(store.events) }

is_task_running(store, task_id) ==
    { is_some(find_running_entry_by_task(es, task_id))
      : es \in build_time_entries(store.events) }

\* mutant: the note is written whether or not one was given
save_manual_entry_always_annotated(store, task_id, start_time, end_time, note, clock) ==
    LET r1 == save_event(store, TimeEntryEvent_start_at(task_id, start_time))
        r2 == save_event(store_of(r1),
                  TimeEntryEvent_stop_at(task_id, r1.saved.id[1], end_time))
        r3 == save_event(store_of(r2),
                  TimeEntryEvent_annotate(task_id, r1.saved.id[1],
                      IF is_some(note) THEN note[1] ELSE "", clock))
    IN  outcome(store_of(r3), <<r1.saved, r2.saved>>, "")

\* add_manual_entry, after the two checks: Start, Stop and the optional Annotate
save_manual_entry(store, task_id, start_time, end_time, note, clock) ==
    LET r1 == save_event(store, TimeEntryEvent_start_at(task_id, start_time))
        r2 == save_event(store_of(r1),
                  TimeEntryEvent_stop_at(task_id, r1.saved.id[1], end_time))
        s3 == IF is_some(note)
              THEN store_of(save_event(store_of(r2),
                       TimeEntryEvent_annotate(task_id, r1.saved.id[1], note[1], clock)))
              ELSE store_of(r2)
    IN  outcome(s3, <<r1.saved, r2.saved>>, "")

\* add_manual_entry whose range check lets start = end through
add_manual_entry_empty_range_allowed(store, task_id, start_time, end_time, note, clock) ==
    IF start_time > end_time
    THEN {outcome(store, <<>>, "Start time must be before end time")}
    ELSE { IF Len(find_overlapping_entries(es, task_id, start_time, end_time)) # 0
           THEN outcome(store, <<>>, "Time entry overlaps with existing entries")
           ELSE save_manual_entry(store, task_id, start_time, end_time, note, clock)
           : es \in build_time_entries(store.events) }

add_manual_entry(store, task_id, start_time, end_time, note, clock) ==
    IF start_time >= end_time
    THEN {outcome(store, <<>>, "Start time must be before end time")}
    ELSE { IF Len(find_overlapping_entries(es, task_id, start_time, end_time)) # 0
           THEN outcome(store, <<>>, "Time entry overlaps with existing entries")
           ELSE save_manual_entry(store, task_id, start_time, end_time, note, clock)
           : es \in build_time_entries(store.events) }

\* the loop of stop_all_timers left after its first turn
stop_each_first_only(store, running_entries, stop_events, clock) ==
    IF Len(running_entries) = 0 THEN outcome(store, stop_events, "")
    ELSE LET entry == Head(running_entries)
             r == save_event(store,
                      TimeEntryEvent_stop(entry.task_id, entry.start_event_id, clock))
         IN  outcome(store_of(r), Append(stop_events, r.saved), "")

\* stop_all_timers: the loop over the running entries, collecting the Stops
RECURSIVE stop_each(_, _, _, _)
stop_each(store, running_entries, stop_events, clock) ==
    IF Len(running_entries) = 0 THEN outcome(store, stop_events, "")
    ELSE LET entry == Head(running_entries)
             r == save_event(store,
                      TimeEntryEvent_stop(entry.task_id, entry.start_event_id, clock))
         IN  stop_each(store_of(r), Tail(running_entries),
                       Append(stop_events, r.saved), clock)

stop_all_timers(store, clock) ==
    { stop_each(store, find_running_entries(es), <<>>, clock)
      : es \in build_time_entries(store.events) }

\* ---------------------------------------------------------------- Project
\* A Project is [id, name, status, effective_at]; the names of Names and of
\* CommandNames pass the checks of the constructors (not empty after trim, at
\* most 255 characters).  A fallible method returns [err, ret]: the message of
\* its Err, or "" and its Ok value.

\* str::trim: "a " is the name written with white space around it
trim(name) == IF name = "a " THEN "a" ELSE name

Project_new(id, name, clock) ==
    [id |-> id, name |-> trim(name), status |-> "active", effective_at |-> clock]

Project_new_with_time(id, name, effective_at) ==
    [id |-> id, name |-> trim(name), status |-> "active",
     effective_at |-> effective_at]

Project_change_name(project, new_name, clock) ==
    [id |-> project.id, name |-> trim(new_name), status |-> project.status,
     effective_at |-> clock]

Project_archive(project, clock) ==
    [id |-> project.id, name |-> project.name, status |-> "archived",
     effective_at |-> clock]

Project_restore(project, clock) ==
    IF project.status # "archived"
    THEN [err |-> "Project is not archived", ret |-> None]
    ELSE [err |-> "",
          ret |-> Some([id |-> project.id, name |-> project.name,
                        status |-> "active", effective_at |-> clock])]

\* ------------------------------------------------------------------- Task
\* A Task is [id, project_id, name, status, effective_at].

Task_new(id, project_id, name, clock) ==
    [id |-> id, project_id |-> project_id, name |-> trim(name),
     status |-> "active", effective_at |-> clock]

Task_new_with_time(id, project_id, name, effective_at) ==
    [id |-> id, project_id |-> project_id, name |-> trim(name),
     status |-> "active", effective_at |-> effective_at]

Task_change_name(task, new_name, clock) ==
    [task EXCEPT !.name = trim(new_name), !.effective_at = clock]

Task_move_to_project(task, new_project_id, clock) ==
    [task EXCEPT !.project_id = new_project_id, !.effective_at = clock]

Task_archive(task, clock) ==
    [task EXCEPT !.status = "archived", !.effective_at = clock]

Task_restore(task, clock) ==
    IF task.status # "archived"
    THEN [err |-> "Task is not archived", ret |-> None]
    ELSE [err |-> "",
          ret |-> Some([task EXCEPT !.status = "active", !.effective_at = clock])]

\* ------------------------------------------------ SqliteProjectRepository
\* The database is [projects, project_versions, tasks, task_versions]: the ids
\* of tables projects and tasks and the rows of tables project_versions and
\* task_versions in the order of their insertion.  Every method holds the
\* connection lock from its first statement to its last.

\* "%Y-%m-%dT%H:%M:%SZ": the text of a timestamp holds its whole seconds
format_datetime(dt) == dt \div TicksPerSecond

parse_datetime(text) == text * TicksPerSecond

versions_of(database, id) ==
    {database.project_versions[i].version :
        i \in {j \in 1..Len(database.project_versions) :
                  database.project_versions[j].project_id = id}}

\* SELECT COALESCE(MAX(...), 0) over a set of numbers
coalesce_max(numbers) ==
    IF numbers = {} THEN 0 ELSE CHOOSE n \in numbers : \A m \in numbers : m <= n

\* save whose MAX(version) is taken over the rows of every project
Sqlite_save_max_of_all_rows(database, project) ==
    LET next_version ==
            coalesce_max({database.project_versions[i].version :
                             i \in 1..Len(database.project_versions)}) + 1
    IN  [database EXCEPT
            !.projects = database.projects \cup {project.id},
            !.project_versions =
                Append(database.project_versions,
                       [project_id |-> project.id, version |-> next_version,
                        name |-> project.name, status |-> project.status,
                        effective_at |-> format_datetime(project.effective_at)])]

\* save: INSERT OR IGNORE of the id, MAX(version) + 1 of the id, INSERT of the row
Sqlite_save(database, project) ==
    LET next_version == coalesce_max(versions_of(database, project.id)) + 1
    IN  [database EXCEPT
            !.projects = database.projects \cup {project.id},
            !.project_versions =
                Append(database.project_versions,
                       [project_id |-> project.id, version |-> next_version,
                        name |-> project.name, status |-> project.status,
                        effective_at |-> format_datetime(project.effective_at)])]

\* save whose INSERT INTO project_versions returns an error: the statements
\* are run one by one outside a transaction, and the INSERT OR IGNORE of the
\* id has been done
Sqlite_save_failed(database, project) ==
    [database EXCEPT !.projects = database.projects \cup {project.id}]

\* exists: SELECT COUNT(*) FROM projects WHERE id = ?1, then count > 0
Sqlite_exists(database, id) ==
    Cardinality({i \in database.projects : i = id}) > 0

\* next_id: SELECT COALESCE(MAX(id), 0) + 1 FROM projects
Sqlite_next_id(database) == coalesce_max(database.projects) + 1

\* the view project_current_view: of every project id the row with the
\* greatest effective_at and, among those, the greatest version
project_current_view(database) ==
    LET rows == {database.project_versions[i] :
                    i \in 1..Len(database.project_versions)}
    IN  {r \in rows :
            \A q \in rows :
                q.project_id = r.project_id =>
                    \/ q.effective_at < r.effective_at
                    \/ q.effective_at = r.effective_at /\ q.version <= r.version}

\* the Project built from a row that was read: new_with_time, then archive()
\* if the row says archived
project_of_row(id, row, clock) ==
    LET project == Project_new_with_time(id, row.name,
                                         parse_datetime(row.effective_at))
    IN  IF row.status = "archived" THEN Project_archive(project, clock)
                                   ELSE project

Sqlite_find_by_id(database, id, clock) ==
    LET hits == {r \in project_current_view(database) : r.project_id = id}
    IN  IF hits = {} THEN None
        ELSE Some(project_of_row(id, CHOOSE r \in hits : TRUE, clock))

\* find_history: the rows of the id ORDER BY effective_at, which leaves rows
\* with equal effective_at in any order: the operator is the set of the
\* vectors the call can return
Sqlite_find_history(database, id, clock) ==
    LET idx == {i \in 1..Len(database.project_versions) :
                   database.project_versions[i].project_id = id}
        n == Cardinality(idx)
        orders == {f \in [1..n -> idx] :
                     /\ \A i, j \in 1..n : i # j => f[i] # f[j]
                     /\ \A i, j \in 1..n : i < j =>
                           database.project_versions[f[i]].effective_at
                              <= database.project_versions[f[j]].effective_at}
    IN  {[k \in 1..n |-> project_of_row(id, database.project_versions[f[k]], clock)]
         : f \in orders}

\* find_at_time: WHERE effective_at <= ?2 ORDER BY effective_at DESC,
\* version DESC LIMIT 1, the bound being the text of at
Sqlite_find_at_time(database, id, at, clock) ==
    LET rows == {database.project_versions[i] :
                    i \in {j \in 1..Len(database.project_versions) :
                              /\ database.project_versions[j].project_id = id
                              /\ database.project_versions[j].effective_at
                                    <= format_datetime(at)}}
        hits == {r \in rows :
                    \A q \in rows :
                        \/ q.effective_at < r.effective_at
                        \/ q.effective_at = r.effective_at /\ q.version <= r.version}
    IN  IF hits = {} THEN None
        ELSE Some(project_of_row(id, CHOOSE r \in hits : TRUE, clock))

\* find_all: the rows of the view, each turned into a Project (the order of
\* the vector plays no part in what follows: a set)
Sqlite_find_all(database, clock) ==
    {project_of_row(r.project_id, r, clock) : r \in project_current_view(database)}

\* is_project_name_unique that does not look at exclude_id
is_project_name_unique_without_exclude(all_projects, name, exclude_id) ==
    ~ \E project \in all_projects : project.name = name

\* ProjectManagementService::is_project_name_unique, on what find_all returned
is_project_name_unique(all_projects, name, exclude_id) ==
    ~ \E project \in all_projects :
          /\ project.name = name
          /\ (is_none(exclude_id) \/ project.id # exclude_id[1])

\* --------------------------------------------------- SqliteTaskRepository
\* The same statements as the project repository, on tasks and task_versions.

task_versions_of(database, id) ==
    {database.task_versions[i].version :
        i \in {j \in 1..Len(database.task_versions) :
                  database.task_versions[j].task_id = id}}

\* save: INSERT OR IGNORE of the id, MAX(version) + 1 of the id, INSERT of the row
SqliteTask_save(database, task) ==
    LET next_version == coalesce_max(task_versions_of(database, task.id)) + 1
    IN  [database EXCEPT
            !.tasks = database.tasks \cup {task.id},
            !.task_versions =
                Append(database.task_versions,
                       [task_id |-> task.id, version |-> next_version,
                        project_id |-> task.project_id, name |-> task.name,
                        status |-> task.status,
                        effective_at |-> format_datetime(task.effective_at)])]

\* next_id: SELECT COALESCE(MAX(id), 0) + 1 FROM tasks
SqliteTask_next_id(database) == coalesce_max(database.tasks) + 1

\* the view task_current_view: of every task id the row with the greatest
\* effective_at and, among those, the greatest version
task_current_view(database) ==
    LET rows == {database.task_versions[i] : i \in 1..Len(database.task_versions)}
    IN  {r \in rows :
            \A q \in rows :
                q.task_id = r.task_id =>
                    \/ q.effective_at < r.effective_at
                    \/ q.effective_at = r.effective_at /\ q.version <= r.version}

\* the Task built from a row that was read: new_with_time, then archive() if
\* the row says archived
task_of_row(id, row, clock) ==
    LET task == Task_new_with_time(id, row.project_id, row.name,
                                   parse_datetime(row.effective_at))
    IN  IF row.status = "archived" THEN Task_archive(task, clock) ELSE task

SqliteTask_find_by_id(database, id, clock) ==
    LET hits == {r \in task_current_view(database) : r.task_id = id}
    IN  IF hits = {} THEN None
        ELSE Some(task_of_row(id, CHOOSE r \in hits : TRUE, clock))

\* the vectors that hold every element of a set once
vectors_of(set) ==
    {f \in [1..Cardinality(set) -> set] :
        \A i, j \in 1..Cardinality(set) : i # j => f[i] # f[j]}

\* find_active_by_project_id without WHERE project_id = ?1
SqliteTask_find_active_of_any_project(database, project_id) ==
    LET hits == {r \in task_current_view(database) : r.status = "active"}
    IN  vectors_of({Task_new_with_time(r.task_id, r.project_id, r.name,
                                       parse_datetime(r.effective_at)) : r \in hits})

\* find_active_by_project_id: the active rows of the view for a project, in
\* the order the query happens to yield them; the status of the row is not
\* looked at again, the Task is built by new_with_time
SqliteTask_find_active_by_project_id(database, project_id) ==
    LET hits == {r \in task_current_view(database) :
                    r.project_id = project_id /\ r.status = "active"}
    IN  vectors_of({Task_new_with_time(r.task_id, r.project_id, r.name,
                                       parse_datetime(r.effective_at)) : r \in hits})

\* find_history: the rows of the id ORDER BY effective_at (ascending), rows of
\* equal effective_at in any order: the set of the vectors the call can return
SqliteTask_find_history(database, id, clock) ==
    LET idx == {i \in 1..Len(database.task_versions) :
                   database.task_versions[i].task_id = id}
        n == Cardinality(idx)
        orders == {f \in [1..n -> idx] :
                     /\ \A i, j \in 1..n : i # j => f[i] # f[j]
                     /\ \A i, j \in 1..n : i < j =>
                           database.task_versions[f[i]].effective_at
                              <= database.task_versions[f[j]].effective_at}
    IN  {[k \in 1..n |-> task_of_row(id, database.task_versions[f[k]], clock)]
         : f \in orders}

\* ------------------------------------------------------------ TaskUseCases
\* A use case returns [db, ret, err]: the database it leaves, its Ok value (as
\* an Option) and the message of its Err ("" on Ok).

result(database, ret, err) == [db |-> database, ret |-> ret, err |-> err]

create_task(database, project_id, name, clock) ==
    LET project == Sqlite_find_by_id(database, project_id, clock)
    IN  IF is_none(project) THEN result(database, None, "Project not found")
        ELSE IF project[1].status = "archived"
        THEN result(database, None, "Cannot create task in archived project")
        ELSE LET id == SqliteTask_next_id(database)
                 task == Task_new(id, project_id, name, clock)
             IN  result(SqliteTask_save(database, task), Some(task), "")

\* update_task that renames the task whatever its status
update_task_any_status(database, id, name, project_id, clock) ==
    LET existing_task == SqliteTask_find_by_id(database, id, clock)
    IN  IF is_none(existing_task) \/ is_none(name)
        THEN result(database, None, "Task not found")
        ELSE LET renamed == Task_change_name(existing_task[1], name[1], clock)
             IN  result(SqliteTask_save(database, renamed), Some(renamed), "")

\* update_task: name and project_id are the Options of UpdateTaskCommand
update_task(database, id, name, project_id, clock) ==
    LET existing_task == SqliteTask_find_by_id(database, id, clock)
    IN  IF is_none(existing_task) THEN result(database, None, "Task not found")
        ELSE IF existing_task[1].status = "archived"
        THEN result(database, None, "Cannot update archived task")
        ELSE LET renamed == IF is_some(name)
                            THEN Task_change_name(existing_task[1], name[1], clock)
                            ELSE existing_task[1]
                 target_project ==
                     IF is_some(project_id)
                     THEN Sqlite_find_by_id(database, project_id[1], clock)
                     ELSE None
             IN  IF is_some(project_id) /\ is_none(target_project)
                 THEN result(database, None, "Target project not found")
                 ELSE IF is_some(project_id) /\ target_project[1].status = "archived"
                 THEN result(database, None, "Cannot move task to archived project")
                 ELSE LET moved == IF is_some(project_id)
                                   THEN Task_move_to_project(renamed, project_id[1], clock)
                                   ELSE renamed
                      IN  result(SqliteTask_save(database, moved), Some(moved), "")

archive_task(database, id, clock) ==
    LET existing_task == SqliteTask_find_by_id(database, id, clock)
    IN  IF is_none(existing_task) THEN result(database, None, "Task not found")
        ELSE IF existing_task[1].status = "archived"
        THEN result(database, None, "Task is already archived")
        ELSE result(SqliteTask_save(database, Task_archive(existing_task[1], clock)),
                    None, "")

\* restore_task that does not look at the project of the task
restore_task_in_any_project(database, id, clock) ==
    LET existing_task == SqliteTask_find_by_id(database, id, clock)
    IN  IF is_none(existing_task) THEN result(database, None, "Task not found")
        ELSE LET restored_task == Task_restore(existing_task[1], clock)
             IN  IF restored_task.err # ""
                 THEN result(database, None, restored_task.err)
                 ELSE result(SqliteTask_save(database, restored_task.ret[1]),
                             restored_task.ret, "")

restore_task(database, id, clock) ==
    LET existing_task == SqliteTask_find_by_id(database, id, clock)
    IN  IF is_none(existing_task) THEN result(database, None, "Task not found")
        ELSE LET project == Sqlite_find_by_id(database, existing_task[1].project_id, clock)
             IN  IF is_none(project) THEN result(database, None, "Project not found")
                 ELSE IF project[1].status = "archived"
                 THEN result(database, None, "Cannot restore task in archived project")
                 ELSE LET restored_task == Task_restore(existing_task[1], clock)
                      IN  IF restored_task.err # ""
                          THEN result(database, None, restored_task.err)
                          ELSE result(SqliteTask_save(database, restored_task.ret[1]),
                                      restored_task.ret, "")

\* get_task_history: what find_history returns, as it returns it
get_task_history(database, id, clock) ==
    {result(database, history, "") :
        history \in SqliteTask_find_history(database, id, clock)}

\* ------------------------------------------------ ProjectManagementService

\* can_archive_project: no active task under the project
can_archive_project(database, project_id) ==
    SqliteTask_find_active_by_project_id(database, project_id) = {<<>>}

\* the loop of archive_project_with_tasks: archive() and save for every task
\* of the vector, in its order
\* the loop that archives the first task of the vector alone
archive_each_first_only(database, active_tasks, clock) ==
    IF active_tasks = <<>> THEN database
    ELSE SqliteTask_save(database, Task_archive(Head(active_tasks), clock))

RECURSIVE archive_each(_, _, _)
archive_each(database, active_tasks, clock) ==
    IF active_tasks = <<>> THEN database
    ELSE archive_each(SqliteTask_save(database, Task_archive(Head(active_tasks), clock)),
                      Tail(active_tasks), clock)

\* archive_project_with_tasks that does not look at the status of the project
archive_project_with_tasks_unchecked(database, project_id, clock) ==
    LET project == Sqlite_find_by_id(database, project_id, clock)
    IN  IF is_none(project) THEN {result(database, None, "Project not found")}
        ELSE {result(Sqlite_save(archive_each(database, active_tasks, clock),
                                 Project_archive(project[1], clock)),
                     None, "")
              : active_tasks \in SqliteTask_find_active_by_project_id(database, project_id)}

\* archive_project_with_tasks: the outcomes, one for every order in which
\* find_active_by_project_id can yield the active tasks
archive_project_with_tasks(database, project_id, clock) ==
    LET project == Sqlite_find_by_id(database, project_id, clock)
    IN  IF is_none(project) THEN {result(database, None, "Project not found")}
        ELSE IF project[1].status = "archived"
        THEN {result(database, None, "Project is already archived")}
        ELSE {result(Sqlite_save(archive_each(database, active_tasks, clock),
                                 Project_archive(project[1], clock)),
                     None, "")
              : active_tasks \in SqliteTask_find_active_by_project_id(database, project_id)}

\* --------------------------------------------------------- ProjectUseCases

create_project(database, name, clock) ==
    IF ~ is_project_name_unique(Sqlite_find_all(database, clock), name, None)
    THEN result(database, None, "Project name already exists")
    ELSE LET project == Project_new(Sqlite_next_id(database), name, clock)
         IN  result(Sqlite_save(database, project), Some(project), "")

update_project(database, id, name, clock) ==
    LET existing_project == Sqlite_find_by_id(database, id, clock)
    IN  IF is_none(existing_project) THEN result(database, None, "Project not found")
        ELSE IF existing_project[1].status = "archived"
        THEN result(database, None, "Cannot update archived project")
        ELSE IF /\ existing_project[1].name # name
                /\ ~ is_project_name_unique(Sqlite_find_all(database, clock),
                                            name, Some(id))
        THEN result(database, None, "Project name already exists")
        ELSE LET updated_project ==
                     Project_change_name(existing_project[1], name, clock)
             IN  result(Sqlite_save(database, updated_project),
                        Some(updated_project), "")

\* archive_project: the outcomes (several with force, one without)
archive_project(database, id, force, clock) ==
    LET existing_project == Sqlite_find_by_id(database, id, clock)
    IN  IF is_none(existing_project) THEN {result(database, None, "Project not found")}
        ELSE IF existing_project[1].status = "archived"
        THEN {result(database, None, "Project is already archived")}
        ELSE IF force THEN archive_project_with_tasks(database, id, clock)
        ELSE IF ~ can_archive_project(database, id)
        THEN {result(database, None, "Cannot archive project with active tasks")}
        ELSE {result(Sqlite_save(database, Project_archive(existing_project[1], clock)),
                     None, "")}

restore_project(database, id, clock) ==
    LET existing_project == Sqlite_find_by_id(database, id, clock)
    IN  IF is_none(existing_project) THEN result(database, None, "Project not found")
        ELSE LET restored_project == Project_restore(existing_project[1], clock)
             IN  IF restored_project.err # ""
                 THEN result(database, None, restored_project.err)
                 ELSE result(Sqlite_save(database, restored_project.ret[1]),
                             restored_project.ret, "")

\* ---------------------------------------------------- TimeTrackingUseCases

\* the start_timer use case without the check of the status of the task
UseCases_start_timer_unchecked(database, store, task_id, clock) ==
    IF is_none(SqliteTask_find_by_id(database, task_id, clock))
    THEN {outcome(store, None, "Task not found")}
    ELSE start_timer(store, task_id, clock)

\* TimeTrackingUseCasesImpl::start_timer: the task is looked up in the task
\* repository, the timer is started by the service on the time entry
\* repository
UseCases_start_timer(database, store, task_id, clock) ==
    LET task == SqliteTask_find_by_id(database, task_id, clock)
    IN  IF is_none(task) THEN {outcome(store, None, "Task not found")}
        ELSE IF task[1].status = "archived"
        THEN {outcome(store, None, "Cannot start timer for archived task")}
        ELSE start_timer(store, task_id, clock)

\* ---------------------------------------------------------------- Spec
\* Service calls made one after another on one repository; a call runs within
\* one reading of the clock.  last is the call whose result is being handed
\* back: the next call, and the next reading of the clock, come after that.

repository == [events |-> events, next_id |-> next_id]

NoCall ==
    [op |-> "none", task_id |-> 0, start_time |-> 0, end_time |-> 0, note |-> None,
     clock |-> 0, pre |-> <<>>, ret |-> <<>>, err |-> ""]

Call(op, task_id, start_time, end_time, note, o) ==
    [op |-> op, task_id |-> task_id, start_time |-> start_time,
     end_time |-> end_time, note |-> note, clock |-> now, pre |-> events,
     ret |-> o.ret, err |-> o.err]

Returns(op, task_id, start_time, end_time, note, o) ==
    /\ events' = o.events
    /\ next_id' = o.next_id
    /\ last' = Call(op, task_id, start_time, end_time, note, o)
    /\ UNCHANGED <<now, pc, loc, db, issued, lock>>

NoLocals ==
    [op |-> "none", task_id |-> 0, start_time |-> 0, end_time |-> 0, note |-> None,
     running |-> <<>>, found |-> None, started |-> None, ret |-> <<>>, err |-> "",
     id |-> 0, name |-> "", history |-> <<>>, at |-> 0,
     project |-> None, task |-> None, exclude_id |-> None]

Init ==
    /\ events = <<>>
    /\ next_id = 1
    /\ now = 0
    /\ last = NoCall
    /\ pc = [p \in Procs |-> "idle"]
    /\ loc = [p \in Procs |-> NoLocals]
    /\ db = [projects |-> {}, project_versions |-> <<>>,
             tasks |-> {}, task_versions |-> <<>>]
    /\ issued = <<>>
    /\ lock = 0

Tick ==
    /\ last = NoCall
    /\ now < MaxTime
    /\ now' = now + 1
    /\ UNCHANGED <<events, next_id, last, pc, loc, db, issued, lock>>

\* the command hands the result of the call to the frontend and keeps nothing
Respond ==
    /\ last # NoCall
    /\ last' = NoCall
    /\ UNCHANGED <<events, next_id, now, pc, loc, db, issued, lock>>

StartTimer(t) ==
    /\ last = NoCall
    /\ Len(events) < MaxEvents
    /\ \E o \in start_timer(repository, t, now) :
          Returns("start_timer", t, 0, 0, None, o)

StopTimer(t) ==
    /\ last = NoCall
    /\ Len(events) < MaxEvents
    /\ \E o \in stop_timer(repository, t, now) :
          Returns("stop_timer", t, 0, 0, None, o)

GetRunningTask ==
    /\ last = NoCall
    /\ \E o \in get_running_task(repository) :
          Returns("get_running_task", 0, 0, 0, None, o)

AddManualEntry(t, s, e, n) ==
    /\ last = NoCall
    /\ Len(events) < MaxEvents
    /\ \E o \in add_manual_entry(repository, t, s, e, n, now) :
          Returns("add_manual_entry", t, s, e, n, o)

StopAllTimers ==
    /\ last = NoCall
    /\ Len(events) < MaxEvents
    /\ \E o \in stop_all_timers(repository, now) :
          Returns("stop_all_timers", 0, 0, 0, None, o)

Next ==
    \/ Tick
    \/ \E t \in Tasks : StartTimer(t)
    \/ \E t \in Tasks : StopTimer(t)
    \/ GetRunningTask
    \/ \E t \in Tasks, s \in Times, e \in Times, n \in Notes :
          AddManualEntry(t, s, e, n)
    \/ StopAllTimers
    \/ Respond

Spec == Init /\ [][Next]_vars

\* ------------------------------------------------- SpecSteps, SpecConc
\* The same service calls, one repository call at a time.  The repository lock
\* is taken and released inside every repository call, and the service holds
\* nothing between two of them, so a step is one repository call together with
\* the local computation that follows it; Utc::now() is read when the event is
\* built, right before it is saved.  Callers are the processes of Procs.

Goto(p, label, locals) ==
    /\ pc' = [pc EXCEPT ![p] = label]
    /\ loc' = [loc EXCEPT ![p] = locals]

\* one save_event call by caller p
Save(event) ==
    LET r == save_event(repository, event)
    IN  /\ events' = r.events
        /\ next_id' = r.next_id

Saved(event) == save_event(repository, event).saved

\* start_timer: find_running_entries
BeginStartTimer(p, t) ==
    /\ pc[p] = "idle"
    /\ Len(events) < MaxEvents
    /\ \E es \in build_time_entries(events) :
          Goto(p, "st_loop",
               [NoLocals EXCEPT !.op = "start_timer", !.task_id = t,
                                !.running = find_running_entries(es)])
    /\ UNCHANGED <<events, next_id, now, last, db, issued, lock>>

\* start_timer: one turn of the loop, a Stop saved for an entry of another task
StStopOther(p) ==
    /\ pc[p] = "st_loop"
    /\ Len(loc[p].running) > 0
    /\ LET entry == Head(loc[p].running)
       IN  IF entry.task_id # loc[p].task_id
           THEN Save(TimeEntryEvent_stop(entry.task_id, entry.start_event_id, now))
           ELSE UNCHANGED <<events, next_id>>
    /\ Goto(p, "st_loop", [loc[p] EXCEPT !.running = Tail(@)])
    /\ UNCHANGED <<now, last, db, issued, lock>>

\* start_timer: the loop is over, find_running_entry_by_task
StFindOwn(p) ==
    /\ pc[p] = "st_loop"
    /\ Len(loc[p].running) = 0
    /\ \E es \in build_time_entries(events) :
          LET running_for_task == find_running_entry_by_task(es, loc[p].task_id)
          IN  Goto(p, IF is_some(running_for_task) THEN "st_own" ELSE "st_start",
                   [loc[p] EXCEPT !.found = running_for_task])
    /\ UNCHANGED <<events, next_id, now, last, db, issued, lock>>

\* start_timer: the Stop of the task's own running entry
StStopOwn(p) ==
    /\ pc[p] = "st_own"
    /\ Save(TimeEntryEvent_stop(loc[p].task_id, loc[p].found[1].start_event_id, now))
    /\ Goto(p, "st_start", loc[p])
    /\ UNCHANGED <<now, last, db, issued, lock>>

\* start_timer: the new Start, and the return
StSaveStart(p) ==
    /\ pc[p] = "st_start"
    /\ Save(TimeEntryEvent_start(loc[p].task_id, now))
    /\ Goto(p, "idle",
            [loc[p] EXCEPT !.ret = <<Saved(TimeEntryEvent_start(loc[p].task_id, now))>>])
    /\ UNCHANGED <<now, last, db, issued, lock>>

\* stop_timer: find_running_entry_by_task; returns None at once if idle
BeginStopTimer(p, t) ==
    /\ pc[p] = "idle"
    /\ Len(events) < MaxEvents
    /\ \E es \in build_time_entries(events) :
          LET running_entry == find_running_entry_by_task(es, t)
          IN  Goto(p, IF is_some(running_entry) THEN "sp_save" ELSE "idle",
                   [NoLocals EXCEPT !.op = "stop_timer", !.task_id = t,
                                    !.found = running_entry])
    /\ UNCHANGED <<events, next_id, now, last, db, issued, lock>>

\* stop_timer: the Stop, and the return
SpSaveStop(p) ==
    /\ pc[p] = "sp_save"
    /\ LET stop_event ==
               TimeEntryEvent_stop(loc[p].task_id, loc[p].found[1].start_event_id, now)
       IN  /\ Save(stop_event)
           /\ Goto(p, "idle", [loc[p] EXCEPT !.ret = <<Saved(stop_event)>>])
    /\ UNCHANGED <<now, last, db, issued, lock>>

\* add_manual_entry: the range check and find_overlapping_entries
BeginAddManualEntry(p, t, s, e, n) ==
    /\ pc[p] = "idle"
    /\ Len(events) < MaxEvents
    /\ LET args == [NoLocals EXCEPT !.op = "add_manual_entry", !.task_id = t,
                        !.start_time = s, !.end_time = e, !.note = n]
       IN  IF s >= e
           THEN Goto(p, "idle",
                     [args EXCEPT !.err = "Start time must be before end time"])
           ELSE \E es \in build_time_entries(events) :
                  IF Len(find_overlapping_entries(es, t, s, e)) # 0
                  THEN Goto(p, "idle",
                         [args EXCEPT !.err = "Time entry overlaps with existing entries"])
                  ELSE Goto(p, "me_start", args)
    /\ UNCHANGED <<events, next_id, now, last, db, issued, lock>>

\* add_manual_entry: the Start
MeSaveStart(p) ==
    /\ pc[p] = "me_start"
    /\ LET start_event == TimeEntryEvent_start_at(loc[p].task_id, loc[p].start_time)
       IN  /\ Save(start_event)
           /\ Goto(p, "me_stop", [loc[p] EXCEPT !.started = Some(Saved(start_event))])
    /\ UNCHANGED <<now, last, db, issued, lock>>

\* add_manual_entry: the Stop; the return if there is no note
MeSaveStop(p) ==
    /\ pc[p] = "me_stop"
    /\ LET stop_event == TimeEntryEvent_stop_at(loc[p].task_id,
                              loc[p].started[1].id[1], loc[p].end_time)
       IN  /\ Save(stop_event)
           /\ Goto(p, IF is_some(loc[p].note) THEN "me_note" ELSE "idle",
                   [loc[p] EXCEPT !.ret = <<loc[p].started[1], Saved(stop_event)>>])
    /\ UNCHANGED <<now, last, db, issued, lock>>

\* add_manual_entry: the Annotate, and the return
MeSaveNote(p) ==
    /\ pc[p] = "me_note"
    /\ Save(TimeEntryEvent_annotate(loc[p].task_id, loc[p].started[1].id[1],
                                    loc[p].note[1], now))
    /\ Goto(p, "idle", loc[p])
    /\ UNCHANGED <<now, last, db, issued, lock>>

\* stop_all_timers: find_running_entries; returns at once if there are none
BeginStopAllTimers(p) ==
    /\ pc[p] = "idle"
    /\ Len(events) < MaxEvents
    /\ \E es \in build_time_entries(events) :
          LET running_entries == find_running_entries(es)
          IN  Goto(p, IF Len(running_entries) > 0 THEN "sa_loop" ELSE "idle",
                   [NoLocals EXCEPT !.op = "stop_all_timers",
                                    !.running = running_entries])
    /\ UNCHANGED <<events, next_id, now, last, db, issued, lock>>

\* stop_all_timers: one turn of the loop; the return after the last
SaStopNext(p) ==
    /\ pc[p] = "sa_loop"
    /\ LET entry == Head(loc[p].running)
           stop_event == TimeEntryEvent_stop(entry.task_id, entry.start_event_id, now)
       IN  /\ Save(stop_event)
           /\ Goto(p, IF Len(loc[p].running) > 1 THEN "sa_loop" ELSE "idle",
                   [loc[p] EXCEPT !.running = Tail(@),
                                  !.ret = Append(@, Saved(stop_event))])
    /\ UNCHANGED <<now, last, db, issued, lock>>

\* the steps of caller p's start_timer, stop_timer and stop_all_timers calls
TimerNext(p) ==
    \/ \E t \in Tasks : BeginStartTimer(p, t)
    \/ StStopOther(p)
    \/ StFindOwn(p)
    \/ StStopOwn(p)
    \/ StSaveStart(p)
    \/ \E t \in Tasks : BeginStopTimer(p, t)
    \/ SpSaveStop(p)
    \/ BeginStopAllTimers(p)
    \/ SaStopNext(p)

\* the steps of caller p's add_manual_entry calls
ManualNext(p) ==
    \/ \E t \in Tasks, s \in Times, e \in Times, n \in Notes :
          BeginAddManualEntry(p, t, s, e, n)
    \/ MeSaveStart(p)
    \/ MeSaveStop(p)
    \/ MeSaveNote(p)

\* one caller, whose calls run step by step, and a reader of the running task
StepsNext ==
    \/ Tick
    \/ GetRunningTask
    \/ Respond
    \/ TimerNext(1)
    \/ ManualNext(1)

SpecSteps == Init /\ [][StepsNext]_vars

\* the callers of Procs, their timer calls interleaved step by step
ConcNext ==
    \/ Tick
    \/ \E p \in Procs : TimerNext(p)

SpecConc == Init /\ [][ConcNext]_vars

\* ------------------------------------------------------------ SpecStore
\* The repository used directly: save_event takes any event its caller built
\* and validates nothing.  A caller builds a Start for any task and instant,
\* and a Stop for any instant and any Start of the store.  The calls are made
\* one after another, and stop_all_timers runs on the stores they leave.

built_events(evs) ==
    {TimeEntryEvent_start_at(t, at) : t \in Tasks, at \in Times}
    \cup {TimeEntryEvent_stop_at(evs[i].task_id, evs[i].id[1], at) :
              i \in {j \in 1..Len(evs) : is_start(evs[j])}, at \in Times}

SaveEvent(event) ==
    /\ last = NoCall
    /\ Len(events) < MaxStored
    /\ LET r == save_event(repository, event)
       IN  Returns("save_event", event.task_id, 0, 0, None,
                   outcome(store_of(r), <<r.saved>>, ""))

StoreNext ==
    \/ \E event \in built_events(events) : SaveEvent(event)
    \/ StopAllTimers
    \/ Respond

SpecStore == Init /\ [][StoreNext]_vars

\* ------------------------------------------------------------- SpecSave
\* save_event of the in-memory repository, called by the callers of Procs at
\* the same time.  It locks next_id inside generate_id and events for the
\* push, and holds neither lock in between: two steps for each call.

\* save_event: generate_id, and the event given its id
BeginSaveEvent(p, event) ==
    /\ pc[p] = "idle"
    /\ next_id <= MaxStored
    /\ LET g == generate_id(repository)
       IN  /\ next_id' = g.next_id
           /\ Goto(p, "sv_push",
                   [NoLocals EXCEPT !.op = "save_event", !.task_id = event.task_id,
                                    !.started = Some(with_id(event, g.id))])
    /\ UNCHANGED <<events, now, last, db, issued, lock>>

\* save_event: the push, and the return
PushEvent(p) ==
    /\ pc[p] = "sv_push"
    /\ events' = Append(events, loc[p].started[1])
    /\ Goto(p, "idle", [loc[p] EXCEPT !.ret = <<loc[p].started[1]>>])
    /\ UNCHANGED <<next_id, now, last, db, issued, lock>>

SaveNext ==
    \E p \in Procs :
        \/ \E event \in built_events(events) : BeginSaveEvent(p, event)
        \/ PushEvent(p)

SpecSave == Init /\ [][SaveNext]_vars

\* --------------------------------------------------------- SpecProjects
\* The project repository on SQLite: save calls with the projects their
\* callers built (SpecProjects) and, with them, a reader that calls find_by_id
\* and then find_history for one id, with no save in between (SpecReads).  A caller builds an active project
\* for any instant (new_with_time) and archives it at the time of the clock.

built_projects(clock) ==
    LET active == {Project_new_with_time(id, name, at) :
                      id \in ProjectIds, name \in Names, at \in Times}
    IN  active \cup {Project_archive(project, clock) : project \in active}

SaveProject(project) ==
    /\ \A p \in Procs : pc[p] = "idle"
    /\ Len(db.project_versions) < MaxVersions
    /\ db' = Sqlite_save(db, project)
    /\ UNCHANGED <<events, next_id, now, last, pc, loc, issued, lock>>

FindById(p, id) ==
    /\ pc[p] = "idle"
    /\ Goto(p, "rd_history",
            [NoLocals EXCEPT !.op = "find_by_id", !.id = id,
                             !.found = Sqlite_find_by_id(db, id, now)])
    /\ UNCHANGED <<events, next_id, now, last, db, issued, lock>>

FindHistory(p) ==
    /\ pc[p] = "rd_history"
    /\ \E history \in Sqlite_find_history(db, loc[p].id, now) :
          Goto(p, "rd_done", [loc[p] EXCEPT !.op = "find_history",
                                            !.history = history])
    /\ UNCHANGED <<events, next_id, now, last, db, issued, lock>>

\* the reader is done with what it read
ReadDone(p) ==
    /\ pc[p] = "rd_done"
    /\ Goto(p, "idle", NoLocals)
    /\ UNCHANGED <<events, next_id, now, last, db, issued, lock>>

\* the save calls alone
ProjectsNext ==
    \/ Tick
    \/ \E project \in built_projects(now) : SaveProject(project)

SpecProjects == Init /\ [][ProjectsNext]_vars

\* the save calls and the reader
ReadsNext ==
    \/ ProjectsNext
    \/ \E id \in ProjectIds : FindById(1, id)
    \/ FindHistory(1)
    \/ ReadDone(1)

SpecReads == Init /\ [][ReadsNext]_vars

\* ----------------------------------------------------------- SpecAtTime
\* The save calls and a reader that calls find_at_time and then find_history
\* for one id, with no save in between.

FindAtTime(p, id, at) ==
    /\ pc[p] = "idle"
    /\ Goto(p, "at_history",
            [NoLocals EXCEPT !.op = "find_at_time", !.id = id, !.at = at,
                             !.found = Sqlite_find_at_time(db, id, at, now)])
    /\ UNCHANGED <<events, next_id, now, last, db, issued, lock>>

AtHistory(p) ==
    /\ pc[p] = "at_history"
    /\ \E history \in Sqlite_find_history(db, loc[p].id, now) :
          Goto(p, "at_done", [loc[p] EXCEPT !.history = history])
    /\ UNCHANGED <<events, next_id, now, last, db, issued, lock>>

AtDone(p) ==
    /\ pc[p] = "at_done"
    /\ Goto(p, "idle", NoLocals)
    /\ UNCHANGED <<events, next_id, now, last, db, issued, lock>>

AtTimeNext ==
    \/ ProjectsNext
    \/ \E id \in ProjectIds, at \in Times : FindAtTime(1, id, at)
    \/ AtHistory(1)
    \/ AtDone(1)

SpecAtTime == Init /\ [][AtTimeNext]_vars

\* ------------------------------------------------------------ SpecTasks
\* Use cases called one after another by one caller, each within one reading
\* of the clock; loc holds the arguments and the result of the latest call.

UseCaseReturns(p, locals, o) ==
    /\ pc[p] = "idle"
    /\ db' = o.db
    /\ loc' = [loc EXCEPT ![p] = [locals EXCEPT !.ret = o.ret, !.err = o.err]]
    /\ UNCHANGED <<events, next_id, now, last, pc, issued, lock>>

CreateProject(name) ==
    /\ Len(db.project_versions) < MaxVersions
    /\ UseCaseReturns(1, [NoLocals EXCEPT !.op = "create_project", !.name = name],
                      create_project(db, name, now))

CreateTask(project_id, name) ==
    /\ Len(db.task_versions) < MaxTaskVersions
    /\ UseCaseReturns(1, [NoLocals EXCEPT !.op = "create_task", !.id = project_id,
                                          !.name = name],
                      create_task(db, project_id, name, now))

UpdateTask(id, name, project_id) ==
    /\ Len(db.task_versions) < MaxTaskVersions
    /\ UseCaseReturns(1, [NoLocals EXCEPT !.op = "update_task", !.id = id],
                      update_task(db, id, name, project_id, now))

GetTaskHistory(id) ==
    \E o \in get_task_history(db, id, now) :
        UseCaseReturns(1, [NoLocals EXCEPT !.op = "get_task_history", !.id = id], o)

TasksNext ==
    \/ Tick
    \/ \E name \in Names : CreateProject(name)
    \/ \E project_id \in ProjectIds, name \in Names : CreateTask(project_id, name)
    \/ \E id \in Tasks, name \in {None} \cup {Some(n) : n \in Names},
          project_id \in {None} \cup {Some(i) : i \in ProjectIds} :
          UpdateTask(id, name, project_id)
    \/ \E id \in Tasks : GetTaskHistory(id)

SpecTasks == Init /\ [][TasksNext]_vars

\* ---------------------------------------------------------- SpecArchive
\* Projects and tasks made, moved and archived through the use cases, and
\* archive_project_with_tasks called on them, one call after another.

ArchiveTask(id) ==
    /\ Len(db.task_versions) < MaxTaskVersions
    /\ UseCaseReturns(1, [NoLocals EXCEPT !.op = "archive_task", !.id = id],
                      archive_task(db, id, now))

ArchiveProjectWithTasks(project_id) ==
    /\ Len(db.project_versions) < MaxVersions
    /\ Len(db.task_versions) <= MaxTaskVersions
    /\ \E o \in archive_project_with_tasks(db, project_id, now) :
          UseCaseReturns(1, [NoLocals EXCEPT !.op = "archive_project_with_tasks",
                                            !.id = project_id], o)

ArchiveNext ==
    \/ Tick
    \/ \E name \in Names : CreateProject(name)
    \/ \E project_id \in ProjectIds : CreateTask(project_id, "a")
    \/ \E id \in Tasks, project_id \in ProjectIds :
          UpdateTask(id, None, Some(project_id))
    \/ \E id \in Tasks : ArchiveTask(id)
    \/ \E project_id \in ProjectIds : ArchiveProjectWithTasks(project_id)

SpecArchive == Init /\ [][ArchiveNext]_vars

\* ------------------------------------------------------------ SpecNames
\* Projects created and renamed through the use cases, with names as callers
\* write them, and is_project_name_unique asked about them.

UpdateProject(id, name) ==
    /\ Len(db.project_versions) < MaxVersions
    /\ UseCaseReturns(1, [NoLocals EXCEPT !.op = "update_project", !.id = id,
                                          !.name = name],
                      update_project(db, id, name, now))

IsProjectNameUnique(name, exclude_id) ==
    UseCaseReturns(1, [NoLocals EXCEPT !.op = "is_project_name_unique",
                                      !.name = name, !.exclude_id = exclude_id],
                   result(db,
                          Some(is_project_name_unique(Sqlite_find_all(db, now),
                                                      name, exclude_id)),
                          ""))

NamesNext ==
    \/ Tick
    \/ \E name \in CommandNames : CreateProject(name)
    \/ \E id \in ProjectIds, name \in CommandNames : UpdateProject(id, name)
    \/ \E name \in CommandNames,
          exclude_id \in {None} \cup {Some(id) : id \in ProjectIds} :
          IsProjectNameUnique(name, exclude_id)

SpecNames == Init /\ [][NamesNext]_vars

\* ---------------------------------------------------------- SpecTimers
\* The start_timer use case on tasks that the task use cases created and
\* archived, one call after another.

UseCasesStartTimer(t) ==
    /\ last = NoCall
    /\ Len(events) < MaxEvents
    /\ \E o \in UseCases_start_timer(db, repository, t, now) :
          Returns("UseCases::start_timer", t, 0, 0, None, o)

TimersNext ==
    \/ Tick
    \/ Respond
    \/ \E t \in Tasks : UseCasesStartTimer(t)
    \/ /\ last = NoCall
       /\ \/ CreateProject("a")
          \/ \E project_id \in ProjectIds : CreateTask(project_id, "a")
          \/ \E id \in Tasks : ArchiveTask(id)

SpecTimers == Init /\ [][TimersNext]_vars

\* --------------------------------------------------------- SpecEntities
\* The methods of Project and Task applied by one caller to the entity it
\* holds: loc.project and loc.task are the receivers (&self), loc.ret and
\* loc.err what the latest method returned.  The caller goes on with a version
\* that was returned (project = project.archive()).

Holds(locals) ==
    /\ loc' = [loc EXCEPT ![1] = locals]
    /\ UNCHANGED <<events, next_id, now, last, pc, db, issued, lock>>

NewProject(id, name) ==
    Holds([NoLocals EXCEPT !.op = "Project::new", !.task = loc[1].task,
                           !.project = Some(Project_new(id, name, now))])

NewTask(id, project_id, name) ==
    Holds([NoLocals EXCEPT !.op = "Task::new", !.project = loc[1].project,
                           !.task = Some(Task_new(id, project_id, name, now))])

ProjectArchive ==
    /\ is_some(loc[1].project)
    /\ Holds([loc[1] EXCEPT !.op = "Project::archive", !.err = "",
                            !.ret = Some(Project_archive(loc[1].project[1], now))])

ProjectRestore ==
    /\ is_some(loc[1].project)
    /\ LET restored == Project_restore(loc[1].project[1], now)
       IN  Holds([loc[1] EXCEPT !.op = "Project::restore", !.err = restored.err,
                               !.ret = restored.ret])

TaskArchive ==
    /\ is_some(loc[1].task)
    /\ Holds([loc[1] EXCEPT !.op = "Task::archive", !.err = "",
                            !.ret = Some(Task_archive(loc[1].task[1], now))])

TaskRestore ==
    /\ is_some(loc[1].task)
    /\ LET restored == Task_restore(loc[1].task[1], now)
       IN  Holds([loc[1] EXCEPT !.op = "Task::restore", !.err = restored.err,
                               !.ret = restored.ret])

\* the caller goes on with the version the method returned
Adopt ==
    /\ loc[1].err = ""
    /\ loc[1].ret # None
    /\ \/ /\ loc[1].op \in {"Project::archive", "Project::restore"}
          /\ Holds([loc[1] EXCEPT !.op = "none", !.project = loc[1].ret, !.ret = None])
       \/ /\ loc[1].op \in {"Task::archive", "Task::restore"}
          /\ Holds([loc[1] EXCEPT !.op = "none", !.task = loc[1].ret, !.ret = None])

EntitiesNext ==
    \/ Tick
    \/ \E id \in ProjectIds, name \in CommandNames : NewProject(id, name)
    \/ \E id \in Tasks, project_id \in ProjectIds, name \in CommandNames :
          NewTask(id, project_id, name)
    \/ ProjectArchive
    \/ ProjectRestore
    \/ TaskArchive
    \/ TaskRestore
    \/ Adopt

SpecEntities == Init /\ [][EntitiesNext]_vars

\* ----------------------------------------------------------- SpecCreate
\* create_project called by the callers of Procs at the same time.  The use
\* case holds no lock of its own; each repository call takes the connection
\* lock for itself: a step for each of its three repository calls.

\* create_project: is_project_name_unique (find_all)
BeginCreateProject(p, name) ==
    /\ pc[p] = "idle"
    /\ Len(db.project_versions) < MaxVersions
    /\ LET args == [NoLocals EXCEPT !.op = "create_project", !.name = name]
       IN  IF is_project_name_unique(Sqlite_find_all(db, now), name, None)
           THEN Goto(p, "cp_next_id", args)
           ELSE Goto(p, "idle", [args EXCEPT !.err = "Project name already exists"])
    /\ UNCHANGED <<events, next_id, now, last, db, issued, lock>>

\* create_project: next_id
CpNextId(p) ==
    /\ pc[p] = "cp_next_id"
    /\ issued' = Append(issued, Sqlite_next_id(db))
    /\ Goto(p, "cp_save", [loc[p] EXCEPT !.id = Sqlite_next_id(db)])
    /\ UNCHANGED <<events, next_id, now, last, db, lock>>

\* create_project: Project::new and save, and the return
CpSave(p) ==
    /\ pc[p] = "cp_save"
    /\ LET project == Project_new(loc[p].id, loc[p].name, now)
       IN  /\ db' = Sqlite_save(db, project)
           /\ Goto(p, "idle", [loc[p] EXCEPT !.ret = <<project>>])
    /\ UNCHANGED <<events, next_id, now, last, issued, lock>>

CreateNext ==
    \/ Tick
    \/ \E p \in Procs :
          \/ \E name \in Names : BeginCreateProject(p, name)
          \/ CpNextId(p)
          \/ CpSave(p)

SpecCreate == Init /\ [][CreateNext]_vars

\* ------------------------------------------------------------ vocabulary
\* What the properties below speak of, read off the log.

EventsOf(log) == {log[i] : i \in 1..Len(log)}

\* the events a call appended to the log it started from
Appended(pre, post) == SubSeq(post, Len(pre) + 1, Len(post))

\* the derived intervals with end_time = None
RunningEntries(log) == {e \in time_entries(log) : is_running(e)}
RunningTasks(log) == {e.task_id : e \in RunningEntries(log)}

\* a span of clock ticks in whole seconds
WholeSeconds(ticks) == ticks \div TicksPerSecond

\* the Stop events of a log that reference the Start event with this id
StopsOf(log, start_id) ==
    {e \in EventsOf(log) : is_stop(e) /\ e.start_event_id = Some(start_id)}

\* the Start events of a log that no Stop event references
OpenStarts(log) ==
    {e \in EventsOf(log) : is_start(e) /\ StopsOf(log, e.id[1]) = {}}

\* ---------------------------------------------------------------- C1
\* C1: after every start_timer call of a run of calls made one after another
\* from an empty log, at most one task has a running interval.
C1_Exclusivity ==
    last.op = "start_timer" => Cardinality(RunningTasks(events)) <= 1

\* a start_timer that found another task running and left only its own
C1_Witness ==
    /\ last.op = "start_timer"
    /\ \E e \in RunningEntries(last.pre) : e.task_id # last.task_id
    /\ RunningTasks(events) = {last.task_id}

\* ---------------------------------------------------------------- C2
\* C2: start_timer is atomic with respect to concurrent start_timer calls: once
\* two concurrent start_timer calls for different tasks have both returned, at
\* most one task has a running interval.  (The log holds the two Starts of
\* these two calls and no other: had the calls run one after the other, the
\* second would have stopped the first.)
C2_AtomicStart ==
    \A p, q \in Procs :
        (/\ p # q
         /\ pc[p] = "idle" /\ loc[p].op = "start_timer"
         /\ pc[q] = "idle" /\ loc[q].op = "start_timer"
         /\ loc[p].task_id # loc[q].task_id
         /\ Cardinality({e \in EventsOf(events) : is_start(e)}) = 2)
        => Cardinality(RunningTasks(events)) <= 1

\* ---------------------------------------------------------------- C3
\* C3: in every state of the log a reader can observe, the states between the
\* appends of one call included, at most one derived interval is running.
C3_SingleRunningAlways == Cardinality(RunningEntries(events)) <= 1

\* ---------------------------------------------------------------- C4
\* C4: start_timer(T2) while another task T1 has a running interval appends a
\* Stop for T1 that references T1's open Start and is stamped with the time of
\* the call; afterwards T1's interval is closed with duration = call time -
\* start time (in whole seconds) and T2 is the running task.
C4_ImplicitStop ==
    last.op = "start_timer" =>
        \A r \in RunningEntries(last.pre) :
            r.task_id # last.task_id =>
                /\ \E i \in 1..Len(Appended(last.pre, events)) :
                      LET stop == Appended(last.pre, events)[i]
                      IN  /\ is_stop(stop)
                          /\ stop.task_id = r.task_id
                          /\ stop.start_event_id = Some(r.start_event_id)
                          /\ stop.at = last.clock
                /\ LET closed == entry_of(events, r.start_event_id)
                   IN  /\ closed.end_time = Some(last.clock)
                       /\ closed.duration_in_seconds =
                              Some(WholeSeconds(last.clock - r.start_time))
                /\ RunningTasks(events) = {last.task_id}

\* T1 ran for at least a second before start_timer(T2) closed it
C4_Witness ==
    /\ last.op = "start_timer"
    /\ \E r \in RunningEntries(last.pre) :
          /\ r.task_id # last.task_id
          /\ entry_of(events, r.start_event_id).duration_in_seconds = Some(1)
    /\ RunningTasks(events) = {last.task_id}

\* ---------------------------------------------------------------- C5
\* C5: start_timer(T) while T itself is running closes the running interval by
\* a Stop that references its Start and appends a new Start with another id;
\* afterwards T has exactly one running interval, the new one.
C5_Restart ==
    last.op = "start_timer" =>
        \A r \in RunningEntries(last.pre) :
            r.task_id = last.task_id =>
                /\ StopsOf(events, r.start_event_id) # {}
                /\ StopsOf(last.pre, r.start_event_id) = {}
                /\ is_completed(entry_of(events, r.start_event_id))
                /\ is_start(last.ret[1])
                /\ last.ret[1].id # Some(r.start_event_id)
                /\ {e \in RunningEntries(events) : e.task_id = last.task_id}
                      = {entry_of(events, last.ret[1].id[1])}

C5_Witness ==
    /\ last.op = "start_timer"
    /\ \E r \in RunningEntries(last.pre) :
          /\ r.task_id = last.task_id
          /\ is_completed(entry_of(events, r.start_event_id))
    /\ Cardinality(RunningEntries(events)) = 1

\* ---------------------------------------------------------------- C6
\* C6: stop_timer(T) on a task with no running interval returns none, not an
\* error, and appends nothing: the log is the log it started from.
C6_IdleStop ==
    (/\ last.op = "stop_timer"
     /\ \A e \in RunningEntries(last.pre) : e.task_id # last.task_id)
    => /\ last.ret = <<>>
       /\ last.err = ""
       /\ events = last.pre

\* stop_timer on an idle task while another task is running
C6_Witness ==
    /\ last.op = "stop_timer"
    /\ RunningTasks(last.pre) # {}
    /\ last.task_id \notin RunningTasks(last.pre)
    /\ last.ret = <<>>
    /\ RunningTasks(events) = RunningTasks(last.pre)

\* ---------------------------------------------------------------- C7
\* C7: start_timer(T) followed immediately by stop_timer(T) (the log stop_timer
\* starts from ends with the Start that start_timer(T) returned) yields a
\* completed entry for T whose duration is the Stop's timestamp minus the
\* Start's, in whole seconds; the returned Stop references that Start.
C7_RoundTrip ==
    (/\ last.op = "stop_timer"
     /\ Len(last.pre) > 0
     /\ is_start(last.pre[Len(last.pre)])
     /\ last.pre[Len(last.pre)].task_id = last.task_id)
    => LET started == last.pre[Len(last.pre)]
           entry == entry_of(events, started.id[1])
       IN  /\ Len(last.ret) = 1
           /\ is_stop(last.ret[1])
           /\ last.ret[1].start_event_id = started.id
           /\ ~is_running(entry)
           /\ entry.task_id = last.task_id
           /\ entry.duration_in_seconds =
                  Some(WholeSeconds(last.ret[1].at - started.at))

\* a round trip that lasted a whole second
C7_Witness ==
    /\ last.op = "stop_timer"
    /\ Len(last.pre) > 0
    /\ is_start(last.pre[Len(last.pre)])
    /\ last.pre[Len(last.pre)].task_id = last.task_id
    /\ Len(last.ret) = 1
    /\ last.ret[1].at - last.pre[Len(last.pre)].at = TicksPerSecond

\* ---------------------------------------------------------------- C8
\* C8: get_running_task returns the task of the single running interval, none
\* when nothing is running, and a data-integrity error when it finds more than
\* one running interval.
C8_RunningTaskOrError ==
    last.op = "get_running_task" =>
        LET running == RunningEntries(last.pre)
        IN  /\ running = {} => (last.ret = <<>> /\ last.err = "")
            /\ Cardinality(running) = 1 =>
                  (last.ret = <<(CHOOSE e \in running : TRUE).task_id>> /\ last.err = "")
            /\ Cardinality(running) > 1 => last.err # ""

\* ---------------------------------------------------------------- C9
\* the closing Stop of a Start: the referencing Stop with the smallest id
ClosingStop(log, start_id) ==
    CHOOSE e \in StopsOf(log, start_id) :
        \A f \in StopsOf(log, start_id) : e.id[1] <= f.id[1]

\* some interval of the task, closed or running, intersects [start, end)
Intersects(log, task_id, start, end) ==
    \E s \in EventsOf(log) :
        /\ is_start(s)
        /\ s.task_id = task_id
        /\ s.at < end
        /\ \/ StopsOf(log, s.id[1]) = {}
           \/ ClosingStop(log, s.id[1]).at > start

\* C9: for start < end, add_manual_entry fails with the overlap error exactly
\* when an existing interval of that task has existing.start < end and
\* (existing.end is None or existing.end > start); it fails in no other way.
C9_OverlapIff ==
    (last.op = "add_manual_entry" /\ last.start_time < last.end_time)
    => /\ last.err \in {"", "Time entry overlaps with existing entries"}
       /\ (last.err = "Time entry overlaps with existing entries")
             <=> Intersects(last.pre, last.task_id, last.start_time, last.end_time)

\* an entry that starts where an interval of the same task ends, and one of
\* another task over the same span, both in the log: the call succeeded
C9_Witness ==
    /\ last.op = "add_manual_entry"
    /\ last.err = ""
    /\ \E e \in time_entries(last.pre) :
          /\ e.task_id = last.task_id
          /\ e.end_time = Some(last.start_time)
    /\ \E e \in time_entries(last.pre) :
          /\ e.task_id # last.task_id
          /\ e.start_time < last.end_time
          /\ (is_running(e) \/ e.end_time[1] > last.start_time)

\* ---------------------------------------------------------------- C10
\* C10: a successful add_manual_entry appends one Start (at = start), then one
\* Stop (at = end, referencing that Start), then one Annotate referencing the
\* same Start exactly when a note was given, and nothing else.
C10_ManualTriple ==
    (last.op = "add_manual_entry" /\ last.err = "")
    => LET new == Appended(last.pre, events)
       IN  /\ SubSeq(events, 1, Len(last.pre)) = last.pre
           /\ Len(new) = IF is_some(last.note) THEN 3 ELSE 2
           /\ is_start(new[1])
           /\ new[1].task_id = last.task_id
           /\ new[1].at = last.start_time
           /\ is_stop(new[2])
           /\ new[2].task_id = last.task_id
           /\ new[2].at = last.end_time
           /\ new[2].start_event_id = new[1].id
           /\ is_some(last.note) =>
                 /\ is_annotate(new[3])
                 /\ new[3].task_id = last.task_id
                 /\ new[3].start_event_id = new[1].id
                 /\ new[3].payload = last.note
           /\ last.ret = <<new[1], new[2]>>

\* one entry added with a note and, before it, one added without
C10_Witness ==
    /\ last.op = "add_manual_entry"
    /\ last.err = ""
    /\ is_some(last.note)
    /\ Len(events) = Len(last.pre) + 3
    /\ Len(last.pre) = 2
    /\ is_stop(last.pre[2])

\* ---------------------------------------------------------------- C11
\* C11: add_manual_entry with start >= end fails with the range error and
\* appends no event.
C11_RangeError ==
    (last.op = "add_manual_entry" /\ last.start_time >= last.end_time)
    => /\ last.err = "Start time must be before end time"
       /\ last.ret = <<>>
       /\ events = last.pre
       /\ next_id = Len(last.pre) + 1

\* an empty range (start = end) was refused on a log that holds nothing of the
\* task over that instant
C11_Witness ==
    /\ last.op = "add_manual_entry"
    /\ last.start_time = last.end_time
    /\ last.err # ""
    /\ Len(last.pre) > 0
    /\ ~Intersects(last.pre, last.task_id, last.start_time, last.end_time + 1)

\* ---------------------------------------------------------------- C12
\* C12: stop_all_timers appends exactly one Stop event for each interval that
\* was running when it was called, each referencing that interval's Start
\* event, returns exactly those Stop events, and leaves no interval running.
C12_StopAll ==
    last.op = "stop_all_timers"
    => LET new == Appended(last.pre, events)
           open == OpenStarts(last.pre)
       IN  /\ last.err = ""
           /\ SubSeq(events, 1, Len(last.pre)) = last.pre
           /\ Len(new) = Cardinality(open)
           /\ \A i \in 1..Len(new) :
                 /\ is_stop(new[i])
                 /\ \E s \in open : /\ new[i].start_event_id = s.id
                                     /\ new[i].task_id = s.task_id
           /\ \A s \in open :
                 Cardinality({i \in 1..Len(new) : new[i].start_event_id = s.id}) = 1
           /\ last.ret = new
           /\ OpenStarts(events) = {}

\* the call found three intervals running, two of them of one task
C12_Witness ==
    /\ last.op = "stop_all_timers"
    /\ \E s1, s2 \in OpenStarts(last.pre) : s1 # s2 /\ s1.task_id = s2.task_id
    /\ Cardinality(OpenStarts(last.pre)) = 3
    /\ Len(last.ret) = 3

\* ---------------------------------------------------------------- C13
\* C13: every Start event derives one interval; its end_time is the timestamp
\* of the Stop event with the smallest id among the Stop events that reference
\* the Start, and it is running exactly when no Stop event references it.
C13_SmallestIdStop ==
    \A s \in {e \in EventsOf(events) : is_start(e)} :
        LET derived == {e \in time_entries(events) : e.start_event_id = s.id[1]}
        IN  /\ Cardinality(derived) = 1
            /\ \A e \in derived :
                  /\ is_running(e) <=> StopsOf(events, s.id[1]) = {}
                  /\ StopsOf(events, s.id[1]) # {} =>
                        e.end_time = Some(ClosingStop(events, s.id[1]).at)

\* ---------------------------------------------------------------- C14
\* C14: no derived closed interval has a negative duration_seconds; a Stop
\* event timed before the Start event it references is reported as an error
\* when the interval is derived, so no interval is derived from the pair.
C14_NoNegativeDuration ==
    \A e \in time_entries(events) :
        is_completed(e) => e.duration_in_seconds[1] >= 0

\* ---------------------------------------------------------------- C15
\* C15: every save_event call gives the event it stores an id that no other
\* stored event has and that is greater than the id of every event stored
\* before it, also when save_event calls run at the same time.
C15_IncreasingIds ==
    \A i, j \in 1..Len(events) : i < j => events[i].id[1] < events[j].id[1]

\* the part of C15 that holds under SpecSave: no two stored events share an id
C15_UniqueIds ==
    \A i, j \in 1..Len(events) : i # j => events[i].id # events[j].id

\* ---------------------------------------------------------------- C18
\* the rows of an id, in the order of their insertion, are numbered 1, 2, ...
VersionsInOrder(rows) ==
    \A i \in 1..Len(rows) :
        rows[i].version =
            Cardinality({j \in 1..i : rows[j].project_id = rows[i].project_id})

\* C18: after any sequence of save calls the version rows of every id carry
\* the versions 1..n, without gap or duplicate, in the order of the saves, and
\* no save changes or removes a row stored before.
C18_VersionsAppendOnly ==
    [][/\ VersionsInOrder(db.project_versions')
       /\ Len(db.project_versions') >= Len(db.project_versions)
       /\ SubSeq(db.project_versions', 1, Len(db.project_versions))
             = db.project_versions]_vars

\* a second version of the project that was saved first, after another project
C18_Witness ==
    /\ Len(db.project_versions) = 3
    /\ db.project_versions[1].project_id = db.project_versions[3].project_id
    /\ db.project_versions[2].project_id # db.project_versions[1].project_id
    /\ db.project_versions[3].version = 2

\* ---------------------------------------------------------------- C19
\* the stored rows of an id
RowsOf(id) ==
    {db.project_versions[i] :
        i \in {j \in 1..Len(db.project_versions) :
                  db.project_versions[j].project_id = id}}

\* the version a row stores, as a Project
StoredVersion(row) ==
    [id |-> row.project_id, name |-> row.name, status |-> row.status,
     effective_at |-> row.effective_at * TicksPerSecond]

\* the row of an id with the greatest effective_at and, among the rows that
\* share it, the greatest version
IsCurrentRow(row) ==
    \A q \in RowsOf(row.project_id) :
        \/ q.effective_at < row.effective_at
        \/ q.effective_at = row.effective_at /\ q.version <= row.version

\* C19: find_by_id(id) returns the stored version of id with the greatest
\* effective_at and, among versions with equal effective_at, the greatest
\* version number; it returns none exactly when id has no version.
C19_CurrentVersion ==
    \A p \in Procs :
        pc[p] = "rd_history" =>
            /\ is_none(loc[p].found) <=> RowsOf(loc[p].id) = {}
            /\ is_some(loc[p].found) =>
                  \E row \in RowsOf(loc[p].id) :
                      /\ IsCurrentRow(row)
                      /\ loc[p].found[1] = StoredVersion(row)

\* ---------------------------------------------------------------- C20
\* C20: for an id with at least one version, find_by_id(id) equals the last
\* element of find_history(id), also with several versions of one
\* effective_at and with archived versions.
C20_LastOfHistory ==
    \A p \in Procs :
        (pc[p] = "rd_done" /\ RowsOf(loc[p].id) # {}) =>
            /\ Len(loc[p].history) > 0
            /\ loc[p].found = Some(loc[p].history[Len(loc[p].history)])

\* ---------------------------------------------------------------- C16
\* C16: next_id returns a positive id greater than every id an earlier
\* next_id call returned; no two callers receive the same id.
C16_FreshIds ==
    /\ \A i \in 1..Len(issued) : issued[i] > 0
    /\ \A i, j \in 1..Len(issued) : i < j => issued[i] < issued[j]

\* ---------------------------------------------------------------- C17
\* C17: two create_project calls that run at the same time and both return a
\* project are given different ids, and the store then holds each of the two
\* ids with exactly one version.
C17_CreateIsCritical ==
    \A p, q \in Procs :
        (/\ p # q
         /\ pc[p] = "idle" /\ loc[p].op = "create_project" /\ loc[p].err = ""
         /\ pc[q] = "idle" /\ loc[q].op = "create_project" /\ loc[q].err = "")
        => /\ loc[p].id # loc[q].id
           /\ Cardinality(versions_of(db, loc[p].id)) = 1
           /\ Cardinality(versions_of(db, loc[q].id)) = 1

\* ---------------------------------------------------------------- C21
\* the places of a history whose entry is effective at or before an instant
EffectiveBy(history, at) ==
    {k \in 1..Len(history) : history[k].effective_at <= at}

\* C21: find_at_time(id, t) equals the last entry of find_history(id) whose
\* effective_at is at or before t, and is none exactly when t precedes the
\* effective_at of every version of id.
C21_AtTimeIsLastOfHistory ==
    \A p \in Procs :
        pc[p] = "at_done" =>
            LET by == EffectiveBy(loc[p].history, loc[p].at)
            IN  /\ is_none(loc[p].found) <=> by = {}
                /\ is_none(loc[p].found) <=>
                      \A row \in RowsOf(loc[p].id) :
                          loc[p].at < StoredVersion(row).effective_at
                /\ is_some(loc[p].found) =>
                      /\ by # {}
                      /\ loc[p].found[1] =
                            loc[p].history[CHOOSE k \in by : \A m \in by : m <= k]

\* ---------------------------------------------------------------- C22
\* the stored rows of an id in the order in which they were saved
ChainOf(id) ==
    LET OfId(row) == row.project_id = id
    IN  SelectSeq(db.project_versions, OfId)

\* C22: find_history(id) returns every version ever saved of id exactly once,
\* in non-decreasing effective_at order, and that order is the order in which
\* the versions were saved.
C22_HistoryInInsertionOrder ==
    \A p \in Procs :
        pc[p] = "rd_done" =>
            LET chain == ChainOf(loc[p].id)
                history == loc[p].history
            IN  /\ Len(history) = Len(chain)
                /\ \A k \in 1..Len(history) : history[k] = StoredVersion(chain[k])
                /\ \A j, k \in 1..Len(history) :
                      j < k => history[j].effective_at <= history[k].effective_at

\* ---------------------------------------------------------------- C23
\* C23: a record read back by find_by_id carries the name, the status and the
\* effective_at with which its current version was saved, for active and
\* archived versions alike: reading never puts another time in the place of
\* the stored effective_at.
C23_ReadBackAsSaved ==
    \A p \in Procs :
        (pc[p] = "rd_history" /\ is_some(loc[p].found)) =>
            LET found == loc[p].found[1]
                row == CHOOSE r \in RowsOf(loc[p].id) : IsCurrentRow(r)
            IN  /\ found.name = row.name
                /\ found.status = row.status
                /\ found.effective_at = parse_datetime(row.effective_at)

\* ---------------------------------------------------------------- C24
\* the stored rows of a task in the order in which they were saved
TaskChainOf(id) ==
    LET OfId(row) == row.task_id = id
    IN  SelectSeq(db.task_versions, OfId)

\* C24: get_task_history(id) returns the versions of the task newest first:
\* its first element is the version saved last (the latest rename) and its
\* last element the version the task was created with.
C24_HistoryNewestFirst ==
    (loc[1].op = "get_task_history" /\ loc[1].err = "") =>
        LET chain == TaskChainOf(loc[1].id)
            history == loc[1].ret
        IN  /\ Len(history) = Len(chain)
            /\ \A k \in 1..Len(history) :
                  LET row == chain[Len(chain) - k + 1]
                  IN  /\ history[k].name = row.name
                      /\ history[k].project_id = row.project_id
                      /\ history[k].status = row.status

\* ---------------------------------------------------------------- C25
\* the status of the receiver of the latest method call
ReceiverStatus ==
    IF loc[1].op \in {"Project::archive", "Project::restore"}
    THEN loc[1].project[1].status
    ELSE loc[1].task[1].status

\* C25: archive() of a Project or Task succeeds only on an active receiver
\* and restore() only on an archived one; in the other case the call fails
\* with an error and yields no new version.
C25_GuardedTransitions ==
    /\ loc[1].op \in {"Project::archive", "Task::archive"} =>
          /\ loc[1].err = "" <=> ReceiverStatus = "active"
          /\ loc[1].err # "" => loc[1].ret = None
    /\ loc[1].op \in {"Project::restore", "Task::restore"} =>
          /\ loc[1].err = "" <=> ReceiverStatus = "archived"
          /\ loc[1].err # "" => loc[1].ret = None

\* restore() alone: it succeeds exactly on an archived receiver, and a failed
\* call yields no version
C25_GuardedRestore ==
    loc[1].op \in {"Project::restore", "Task::restore"} =>
        /\ loc[1].err = "" <=> ReceiverStatus = "archived"
        /\ loc[1].err # "" => loc[1].ret = None

\* ---------------------------------------------------------------- C26
\* the current row of every task of a database: the one with the greatest
\* effective_at and, among the rows that share it, the greatest version
CurrentTaskRows(database) ==
    LET rows == {database.task_versions[i] : i \in 1..Len(database.task_versions)}
    IN  {r \in rows :
            ~ \E q \in rows :
                  /\ q.task_id = r.task_id
                  /\ \/ q.effective_at > r.effective_at
                     \/ q.effective_at = r.effective_at /\ q.version > r.version}

CurrentProjectRows(database) ==
    LET rows == {database.project_versions[i] :
                    i \in 1..Len(database.project_versions)}
    IN  {r \in rows :
            ~ \E q \in rows :
                  /\ q.project_id = r.project_id
                  /\ \/ q.effective_at > r.effective_at
                     \/ q.effective_at = r.effective_at /\ q.version > r.version}

\* the tasks whose current version is active and under a project
ActiveTasksUnder(database, project_id) ==
    {r.task_id : r \in {q \in CurrentTaskRows(database) :
                            q.project_id = project_id /\ q.status = "active"}}

\* C26: a successful archive_project_with_tasks(P) on an active project
\* appends an archived version for every task that is active under P, and
\* for no other task, and an archived version for P; afterwards the current
\* status of P and of every task under P is archived.
C26_ArchiveCascades ==
    [][(loc'[1].op = "archive_project_with_tasks" /\ loc'[1].err = "") =>
          LET P == loc'[1].id
              was_active == ActiveTasksUnder(db, P)
              n == Len(db.task_versions)
              m == Len(db.project_versions)
              steps == db' # db
          IN  /\ \A r \in CurrentProjectRows(db') :
                    r.project_id = P => r.status = "archived"
              /\ \A r \in CurrentTaskRows(db') :
                    r.project_id = P => r.status = "archived"
              /\ steps =>
                    /\ \E r \in CurrentProjectRows(db) :
                          r.project_id = P /\ r.status = "active"
                    /\ Len(db'.project_versions) = m + 1
                    /\ SubSeq(db'.project_versions, 1, m) = db.project_versions
                    /\ db'.project_versions[m + 1].project_id = P
                    /\ db'.project_versions[m + 1].status = "archived"
                    /\ Len(db'.task_versions) = n + Cardinality(was_active)
                    /\ SubSeq(db'.task_versions, 1, n) = db.task_versions
                    /\ \A id \in was_active :
                          \E k \in (n + 1)..Len(db'.task_versions) :
                              /\ db'.task_versions[k].task_id = id
                              /\ db'.task_versions[k].project_id = P
                              /\ db'.task_versions[k].status = "archived"]_vars

\* archive_project_with_tasks has returned Ok for a project with two active
\* tasks, beside a task of another project that stays active
C26_Witness ==
    /\ loc[1].op = "archive_project_with_tasks"
    /\ loc[1].err = ""
    /\ Len(db.task_versions) = 5
    /\ db.task_versions[4].status = "archived"
    /\ db.task_versions[5].status = "archived"
    /\ db.task_versions[4].task_id # db.task_versions[5].task_id
    /\ \E r \in CurrentTaskRows(db) : r.status = "active"

\* ---------------------------------------------------------------- C27
\* C27: archive_project_with_tasks(P) on a project whose current status is
\* archived, such as a second call right after a successful one, fails with
\* the "already archived" error and appends no version to P or to any task.
C27_SecondArchiveFails ==
    [][(/\ loc'[1].op = "archive_project_with_tasks"
        /\ loc' # loc \/ db' # db
        /\ \E r \in CurrentProjectRows(db) :
              r.project_id = loc'[1].id /\ r.status = "archived")
       => /\ loc'[1].err = "Project is already archived"
          /\ db' = db]_vars

\* the second call on a project that the first call archived with its task
C27_Witness ==
    /\ loc[1].op = "archive_project_with_tasks"
    /\ loc[1].err = "Project is already archived"
    /\ \E k \in 1..Len(db.project_versions) :
          /\ db.project_versions[k].project_id = loc[1].id
          /\ db.project_versions[k].version = 2
          /\ db.project_versions[k].status = "archived"
    /\ \E r \in CurrentTaskRows(db) :
          r.project_id = loc[1].id /\ r.status = "archived" /\ r.version = 2

\* ---------------------------------------------------------------- C28
\* C28: is_project_name_unique(name, exclude_id) returns false exactly when
\* the current version of some project other than exclude_id has that very
\* name: the project exclude_id is no conflict, and a name that only
\* superseded versions carry is none either.
C28_UniqueIffNoCurrentHolder ==
    loc[1].op = "is_project_name_unique" =>
        (loc[1].ret = Some(FALSE)
            <=> \E r \in CurrentProjectRows(db) :
                    /\ r.name = loc[1].name
                    /\ r.project_id \notin {loc[1].exclude_id[k] :
                                               k \in 1..Len(loc[1].exclude_id)})

\* the name is free although the excluded project carries it and a
\* superseded version of another project carried it
C28_Witness ==
    /\ loc[1].op = "is_project_name_unique"
    /\ loc[1].ret = Some(TRUE)
    /\ is_some(loc[1].exclude_id)
    /\ \E r \in CurrentProjectRows(db) :
          r.name = loc[1].name /\ r.project_id = loc[1].exclude_id[1]
    /\ \E k \in 1..Len(db.project_versions) :
          /\ db.project_versions[k].name = loc[1].name
          /\ db.project_versions[k].project_id # loc[1].exclude_id[1]
          /\ db.project_versions[k] \notin CurrentProjectRows(db)

\* ---------------------------------------------------------------- C29
\* C29: after any sequence of create_project and update_project calls no two
\* projects have current versions with the same stored name.
C29_NoDuplicateNames ==
    \A r, q \in CurrentProjectRows(db) :
        r.project_id # q.project_id => r.name # q.name

\* ---------------------------------------------------------------- C30
\* C30: the start_timer use case fails for a task id that does not exist and
\* for a task whose current status is archived; in both cases it appends no
\* event, so a timer that runs on another task keeps running.
C30_StartRefused ==
    last.op = "UseCases::start_timer" =>
        LET rows == {r \in CurrentTaskRows(db) : r.task_id = last.task_id}
        IN  /\ rows = {} =>
                  /\ last.err = "Task not found"
                  /\ events = last.pre
            /\ (\E r \in rows : r.status = "archived") =>
                  /\ last.err = "Cannot start timer for archived task"
                  /\ events = last.pre
            /\ last.err # "" =>
                  /\ last.ret = None
                  /\ RunningEntries(events) = RunningEntries(last.pre)

\* the start on an archived task was refused while another task is running
C30_Witness ==
    /\ last.op = "UseCases::start_timer"
    /\ last.err = "Cannot start timer for archived task"
    /\ \E e \in RunningEntries(events) : e.task_id # last.task_id

\* the start on a task id that does not exist was refused while a task runs
C30_WitnessNotFound ==
    /\ last.op = "UseCases::start_timer"
    /\ last.err = "Task not found"
    /\ RunningEntries(events) # {}


\* --------------------------------------------------------- SpecUseCases
\* The project and task use cases called one after another by one caller:
\* create, rename, move, archive (with and without force) and restore.

ArchiveProject(id, force) ==
    /\ Len(db.project_versions) < MaxVersions
    /\ Len(db.task_versions) <= MaxTaskVersions
    /\ \E o \in archive_project(db, id, force, now) :
          UseCaseReturns(1, [NoLocals EXCEPT
                                !.op = IF force THEN "archive_project(force)"
                                                ELSE "archive_project",
                                !.id = id], o)

RestoreProject(id) ==
    /\ Len(db.project_versions) < MaxVersions
    /\ UseCaseReturns(1, [NoLocals EXCEPT !.op = "restore_project", !.id = id],
                      restore_project(db, id, now))

RestoreTask(id) ==
    /\ Len(db.task_versions) < MaxTaskVersions
    /\ UseCaseReturns(1, [NoLocals EXCEPT !.op = "restore_task", !.id = id],
                      restore_task(db, id, now))

\* the clock passes a whole second, which is what the rows keep of it
TickSecond ==
    /\ now + TicksPerSecond <= MaxTime
    /\ now' = now + TicksPerSecond
    /\ UNCHANGED <<events, next_id, last, pc, loc, db, issued, lock>>

UseCasesNext ==
    \/ TickSecond
    \/ /\ Len(db.project_versions) + Len(db.task_versions)
             < MaxVersions + MaxTaskVersions - 1
       /\ \/ CreateProject("a")
          \/ \E id \in ProjectIds : UpdateProject(id, "b")
          \/ \E id \in ProjectIds : RestoreProject(id)
          \/ \E project_id \in ProjectIds : CreateTask(project_id, "a")
          \/ \E id \in Tasks : UpdateTask(id, Some("b"), None)
          \/ \E id \in Tasks, project_id \in ProjectIds :
                UpdateTask(id, None, Some(project_id))
          \/ \E id \in Tasks : ArchiveTask(id)
          \/ \E id \in Tasks : RestoreTask(id)
    \/ \E id \in ProjectIds, force \in BOOLEAN : ArchiveProject(id, force)

SpecUseCases == Init /\ [][UseCasesNext]_vars

\* ---------------------------------------------------------------- C31
\* the ids whose current version is archived
ArchivedProjects(database) ==
    {r.project_id : r \in {q \in CurrentProjectRows(database) : q.status = "archived"}}

ArchivedTasks(database) ==
    {r.task_id : r \in {q \in CurrentTaskRows(database) : q.status = "archived"}}

\* the rows of the two tables that belong to one id
ProjectRowsIn(database, id) ==
    SelectSeq(database.project_versions, LAMBDA r : r.project_id = id)

TaskRowsIn(database, id) ==
    SelectSeq(database.task_versions, LAMBDA r : r.task_id = id)

\* C31: a rename, a move or a second archive of a project or task whose
\* current version is archived returns an error and appends no version;
\* whatever the call, a project or task whose current version is archived
\* gets a new version from restore alone.
C31_ArchivedIsFrozen ==
    [][ /\ \A id \in ArchivedProjects(db) :
              /\ ( /\ loc' # loc \/ db' # db
                   /\ loc'[1].op \in {"update_project", "archive_project",
                                      "archive_project(force)"}
                   /\ loc'[1].id = id )
                 => loc'[1].err # "" /\ db' = db
              /\ ProjectRowsIn(db', id) # ProjectRowsIn(db, id)
                 => loc'[1].op = "restore_project" /\ loc'[1].id = id
        /\ \A id \in ArchivedTasks(db) :
              /\ ( /\ loc' # loc \/ db' # db
                   /\ loc'[1].op \in {"update_task", "archive_task"}
                   /\ loc'[1].id = id )
                 => loc'[1].err # "" /\ db' = db
              /\ TaskRowsIn(db', id) # TaskRowsIn(db, id)
                 => loc'[1].op = "restore_task" /\ loc'[1].id = id
      ]_vars

\* a rename of an archived project and a move of an archived task were refused
C31_Witness ==
    /\ loc[1].op = "update_task"
    /\ loc[1].id \in ArchivedTasks(db)
    /\ loc[1].err = "Cannot update archived task"
    /\ ArchivedProjects(db) # {}

C31_WitnessProject ==
    /\ loc[1].op = "update_project"
    /\ loc[1].id \in ArchivedProjects(db)
    /\ loc[1].err = "Cannot update archived project"

C31_WitnessRestored ==
    /\ loc[1].op = "restore_task"
    /\ loc[1].err = ""
    /\ \E i \in 1..Len(db.task_versions) :
          db.task_versions[i].task_id = loc[1].id
          /\ db.task_versions[i].status = "archived"

C34_WitnessUnforced ==
    /\ loc[1].op = "archive_project"
    /\ loc[1].err = ""
    /\ \E r \in CurrentTaskRows(db) : r.project_id = loc[1].id

\* ----------------------------------------------------------- SpecExists
\* The save calls, some of which fail at their last statement, and a caller
\* that asks exists.

SaveProjectFails(project) ==
    /\ \A p \in Procs : pc[p] = "idle"
    /\ db' = Sqlite_save_failed(db, project)
    /\ UNCHANGED <<events, next_id, now, last, pc, loc, issued, lock>>

Exists(p, id) ==
    /\ pc[p] = "idle"
    /\ Goto(p, "rd_done",
            [NoLocals EXCEPT !.op = "exists", !.id = id,
                             !.ret = Some(Sqlite_exists(db, id))])
    /\ UNCHANGED <<events, next_id, now, last, db, issued, lock>>

ExistsNext ==
    \/ ProjectsNext
    \/ \E project \in built_projects(now) : SaveProjectFails(project)
    \/ \E id \in ProjectIds : Exists(1, id)
    \/ ReadDone(1)

SpecExists == Init /\ [][ExistsNext]_vars

\* ---------------------------------------------------------------- C32
\* C32: exists(id) returns true exactly when a version row is stored for id,
\* which is exactly when find_by_id(id) returns a record, also after a save
\* call that failed part-way through.
C32_ExistsIffVersionStored ==
    [][ (loc'[1].op = "exists" /\ loc'[1] # loc[1])
        => /\ loc'[1].ret[1] = (ProjectRowsIn(db', loc'[1].id) # <<>>)
           /\ loc'[1].ret[1] = is_some(Sqlite_find_by_id(db', loc'[1].id, now')) ]_vars

\* the same, of the states no failed save has led to
C32_ExistsAfterWholeSaves ==
    [][ ( /\ loc'[1].op = "exists" /\ loc'[1] # loc[1]
          /\ \A id \in db.projects : ProjectRowsIn(db, id) # <<>> )
        => /\ loc'[1].ret[1] = (ProjectRowsIn(db', loc'[1].id) # <<>>)
           /\ loc'[1].ret[1] = is_some(Sqlite_find_by_id(db', loc'[1].id, now')) ]_vars

\* ------------------------------------------------------------- SpecLock
\* The lock of the shared store.  ApplicationService::new wraps the one
\* DatabaseConnection in one tokio Mutex and hands it to every repository; a
\* repository call awaits the lock in its first line, runs its statements, and
\* drops the guard when it returns.  The use cases and the service hold nothing
\* between two repository calls.  pc[p] names the repository call caller p
\* makes next; what a call read is left open: every branch its handler can
\* take is a successor.

\* the running entries a find_running_entries call can have returned that the
\* loop saves a Stop for, numbered from the last
running_vectors == {[i \in 1..k |-> k - i + 1] : k \in 0..MaxTask}

\* the first repository call of a call (start_timer and stop_timer look the
\* task up first)
first_call(op) ==
    CASE op = "start_timer" -> "st_find_task"
      [] op = "stop_timer" -> "sp_find_task"
      [] op = "stop_all_timers" -> "sa_find"
      [] op = "add_manual_entry" -> "me_overlap"

\* a handler has returned: it keeps nothing
returned == [pc |-> "idle", loc |-> NoLocals]

\* where start_timer stands when the repository call at label has returned
\* (it returns after find_by_id if the task is missing or archived)
after_start_timer(label, locals) ==
    CASE label = "st_find_task" ->
             {returned, [pc |-> "st_find_running", loc |-> locals]}
      [] label = "st_find_running" ->
             {[pc |-> IF running = <<>> THEN "st_find_own" ELSE "st_loop",
               loc |-> [locals EXCEPT !.running = running]]
                 : running \in running_vectors}
      [] label = "st_loop" ->
             {[pc |-> IF Len(locals.running) > 1 THEN "st_loop" ELSE "st_find_own",
               loc |-> [locals EXCEPT !.running = Tail(@)]]}
      [] label = "st_find_own" ->
             {[pc |-> "st_own", loc |-> locals], [pc |-> "st_start", loc |-> locals]}
      [] label = "st_own" -> {[pc |-> "st_start", loc |-> locals]}
      [] label = "st_start" -> {returned}
      [] OTHER -> {}

\* stop_timer: find_by_id, find_running_entry_by_task, save_event
after_stop_timer(label, locals) ==
    CASE label = "sp_find_task" -> {returned, [pc |-> "sp_find", loc |-> locals]}
      [] label = "sp_find" -> {returned, [pc |-> "sp_save", loc |-> locals]}
      [] label = "sp_save" -> {returned}
      [] OTHER -> {}

\* stop_all_timers: find_running_entries, then a save_event for every entry
after_stop_all_timers(label, locals) ==
    CASE label = "sa_find" ->
             {IF running = <<>> THEN returned
              ELSE [pc |-> "sa_loop", loc |-> [locals EXCEPT !.running = running]]
                 : running \in running_vectors}
      [] label = "sa_loop" ->
             {IF Len(locals.running) > 1
              THEN [pc |-> "sa_loop", loc |-> [locals EXCEPT !.running = Tail(@)]]
              ELSE returned}
      [] OTHER -> {}

\* add_manual_entry: find_overlapping_entries (it returns if there is an
\* overlap), the Start, the Stop, the Annotate if there is a note
after_add_manual_entry(label, locals) ==
    CASE label = "me_overlap" -> {returned, [pc |-> "me_start", loc |-> locals]}
      [] label = "me_start" -> {[pc |-> "me_stop", loc |-> locals]}
      [] label = "me_stop" ->
             {IF is_some(locals.note) THEN [pc |-> "me_note", loc |-> locals]
                                      ELSE returned}
      [] label = "me_note" -> {returned}
      [] OTHER -> {}

\* a guard that is never dropped
MutexGuard_leak(holder) == holder

\* the guard goes out of scope at the end of the repository call
MutexGuard_drop(holder) == 0

\* a use case or service is called: it is at its first repository call
CallHandler(p, op, note) ==
    /\ pc[p] = "idle"
    /\ Goto(p, first_call(op), [NoLocals EXCEPT !.op = op, !.note = note])
    /\ UNCHANGED <<events, next_id, now, last, db, issued, lock>>

\* self.db.lock().await returns the guard
Acquire(p) ==
    /\ pc[p] # "idle"
    /\ lock = 0
    /\ lock' = p
    /\ UNCHANGED <<events, next_id, now, last, pc, loc, db, issued>>

\* the statements of the repository call, its return and what the handler
\* does until its next repository call or its own return
RepositoryCall(p) ==
    /\ lock = p
    /\ \E n \in after_start_timer(pc[p], loc[p])
               \cup after_stop_timer(pc[p], loc[p])
               \cup after_stop_all_timers(pc[p], loc[p])
               \cup after_add_manual_entry(pc[p], loc[p]) :
          Goto(p, n.pc, n.loc)
    /\ lock' = MutexGuard_drop(p)
    /\ UNCHANGED <<events, next_id, now, last, db, issued>>

LockNext ==
    \/ \E p \in Procs, op \in {"start_timer", "stop_timer", "stop_all_timers"} :
          CallHandler(p, op, None)
    \/ \E p \in Procs, note \in Notes : CallHandler(p, "add_manual_entry", note)
    \/ \E p \in Procs : Acquire(p)
    \/ \E p \in Procs : RepositoryCall(p)

\* tokio's Mutex hands the lock to its waiters in the order they asked (strong
\* fairness of Acquire), and the runtime runs a task that can go on
SpecLock ==
    /\ Init
    /\ [][LockNext]_vars
    /\ \A p \in Procs : SF_vars(Acquire(p)) /\ WF_vars(RepositoryCall(p))

\* ---------------------------------------------------------------- C33
\* C33: under every interleaving of concurrent calls on the shared store,
\* every call returns in the end: a caller that is inside a call is idle
\* again later.
C33_EveryCallReturns ==
    \A p \in Procs : (pc[p] # "idle") ~> (pc[p] = "idle")

\* no caller asks for the lock while it holds it, and a caller between two
\* calls holds nothing
C33_LockNotHeldBetweenCalls ==
    \A p \in Procs : pc[p] = "idle" => lock # p

\* one caller holds the lock in the loop of its start_timer while another is
\* waiting for it inside its own call
C33_Witness ==
    \E p, q \in Procs :
        /\ p # q
        /\ lock = p
        /\ pc[p] = "st_loop"
        /\ pc[q] \notin {"idle"}

\* ------------------------------------------------------------- SpecRace
\* start_timer calls of several callers interleaved step by step, which can
\* leave more than one interval open, and start_timer calls that run from
\* their first step to their return while every other caller is idle.

\* the steps of caller p's start_timer calls
StartTimerSteps(p) ==
    \/ \E t \in Tasks : BeginStartTimer(p, t)
    \/ StStopOther(p)
    \/ StFindOwn(p)
    \/ StStopOwn(p)
    \/ StSaveStart(p)

\* a start_timer call that nothing interferes with
StartTimerAlone(t) ==
    /\ \A p \in Procs : pc[p] = "idle"
    /\ StartTimer(t)

RaceNext ==
    \/ Tick
    \/ Respond
    \/ last = NoCall /\ \E p \in Procs : StartTimerSteps(p)
    \/ \E t \in Tasks : StartTimerAlone(t)

SpecRace == Init /\ [][RaceNext]_vars

\* ---------------------------------------------------------------- C35
\* C35: a start_timer call that runs without interference, on a log with any
\* number of open intervals (several of its own task among them), ends with
\* exactly one open interval in the whole log: the one it started.
C35_OneOpenAfterStart ==
    (last.op = "start_timer" /\ last.err = "")
        => OpenStarts(events) = {last.ret[1]}

\* the same, of the calls that begin on a log in which no task has two open
\* intervals
C35_OneOpenAfterStartOnSingles ==
    ( /\ last.op = "start_timer" /\ last.err = ""
      /\ \A s1, s2 \in OpenStarts(last.pre) : s1.task_id = s2.task_id => s1 = s2 )
        => OpenStarts(events) = {last.ret[1]}

\* ---------------------------------------------------------------- C36
\* C36: under every interleaving of concurrent start_timer, stop_timer and
\* stop_all_timers calls, no Start event is referenced by more than one Stop
\* event.
C36_OneStopPerStart ==
    \A s \in EventsOf(events) :
        is_start(s) => Cardinality(StopsOf(events, s.id[1])) <= 1

\* ----------------------------------------------------------- SpecManual
\* One caller's add_manual_entry calls (without a note) and another caller's
\* timer calls, interleaved one repository call at a time.

\* the steps of caller p's add_manual_entry calls without a note
ManualNoNoteNext(p) ==
    \/ \E t \in Tasks, s \in Times, e \in Times :
          BeginAddManualEntry(p, t, s, e, None)
    \/ MeSaveStart(p)
    \/ MeSaveStop(p)

MixedNext ==
    \/ Tick
    \/ ManualNoNoteNext(1)
    \/ TimerNext(2)

SpecManual == Init /\ [][MixedNext]_vars

\* ---------------------------------------------------------------- C37
\* C37: whenever add_manual_entry(task, start, end, note) returns successfully,
\* the interval derived for the Start event it appended has start_time = start
\* and end_time = end, also when timer calls run concurrently with it.
C37_ManualIntervalAsGiven ==
    [][ (pc[1] \in {"me_stop", "me_note"} /\ pc'[1] = "idle")
        => \E e \in time_entries(events') :
              /\ e.start_event_id = loc'[1].started[1].id[1]
              /\ e.start_time = loc'[1].start_time
              /\ e.end_time = Some(loc'[1].end_time) ]_vars

\* --------------------------------------------------- SpecArchivedTimers
\* The start_timer use case and the use cases that archive: archive_task and
\* archive_project with force, one call after another.

ArchivedTimersNext ==
    \/ last = NoCall /\ TickSecond
    \/ Respond
    \/ \E t \in Tasks : UseCasesStartTimer(t)
    \/ /\ last = NoCall
       /\ \/ CreateProject("a")
          \/ \E project_id \in ProjectIds : CreateTask(project_id, "a")
          \/ \E id \in Tasks : ArchiveTask(id)
          \/ \E id \in ProjectIds : ArchiveProject(id, TRUE)

SpecArchivedTimers == Init /\ [][ArchivedTimersNext]_vars

\* ---------------------------------------------------------------- C38
\* the Start events of a task that no Stop event references
OpenStartsOf(log, task_id) == {s \in OpenStarts(log) : s.task_id = task_id}

\* C38: after every run of use-case calls, a task whose current status is
\* archived has no running interval.
C38_ArchivedNotRunning ==
    \A id \in ArchivedTasks(db) : OpenStartsOf(events, id) = {}

\* C38, amended: archive_task and archive_project with force save no event,
\* so the intervals that are running when they are called, those of the
\* archived tasks among them, are still running afterwards; and no call opens
\* an interval for a task whose current status is archived.
C38_ArchiveLeavesTimersRunning ==
    [][ /\ ( /\ loc'[1] # loc[1] \/ db' # db
             /\ loc'[1].op \in {"archive_task", "archive_project(force)"} )
           => OpenStarts(events') = OpenStarts(events)
        /\ \A id \in ArchivedTasks(db') :
              OpenStartsOf(events', id) \subseteq OpenStartsOf(events, id)
      ]_vars

\* archive_task has archived a task whose timer is running
C38_Witness ==
    /\ loc[1].op = "archive_task"
    /\ loc[1].err = ""
    /\ loc[1].id \in ArchivedTasks(db)
    /\ OpenStartsOf(events, loc[1].id) # {}

\* archive_project with force has archived a task whose timer is running
C38_WitnessForced ==
    /\ loc[1].op = "archive_project(force)"
    /\ loc[1].err = ""
    /\ \E id \in ArchivedTasks(db) : OpenStartsOf(events, id) # {}

\* ---------------------------------------------------------------- C39
\* C39: archive_project_with_tasks(P) appends versions for P and for the tasks
\* whose current version is active and belongs to P, and for nothing else: no
\* other project, no task of another project, no task that was moved away
\* from P and no task of P that is archived already gets a version.
C39_ArchiveTouchesOnlyItsOwn ==
    [][ ( /\ loc'[1].op = "archive_project_with_tasks"
          /\ loc'[1] # loc[1] \/ db' # db )
        => /\ \A id \in ProjectIds \ {loc'[1].id} :
                 ProjectRowsIn(db', id) = ProjectRowsIn(db, id)
           /\ \A t \in Tasks \ ActiveTasksUnder(db, loc'[1].id) :
                 TaskRowsIn(db', t) = TaskRowsIn(db, t) ]_vars

\* P was archived with one of its tasks while a task that had been moved away
\* from P is still active under another project
C39_Witness ==
    /\ loc[1].op = "archive_project_with_tasks"
    /\ loc[1].err = ""
    /\ \E r \in CurrentTaskRows(db) :
          r.project_id = loc[1].id /\ r.status = "archived"
    /\ \E r \in CurrentTaskRows(db) :
          /\ r.project_id # loc[1].id
          /\ r.status = "active"
          /\ \E i \in 1..Len(db.task_versions) :
                /\ db.task_versions[i].task_id = r.task_id
                /\ db.task_versions[i].project_id = loc[1].id

\* P was archived with one of its tasks while another task of P, archived
\* before, has the one archived version it had
C39_WitnessArchivedBefore ==
    /\ loc[1].op = "archive_project_with_tasks"
    /\ loc[1].err = ""
    /\ \E t, u \in ActiveTasksUnder(db, loc[1].id) \cup ArchivedTasks(db) :
          /\ t # u
          /\ Len(TaskRowsIn(db, t)) = 2
          /\ Len(TaskRowsIn(db, u)) = 2
          /\ \A i \in 1..Len(db.task_versions) :
                db.task_versions[i].project_id = loc[1].id
          /\ db.task_versions[Len(db.task_versions)].task_id = u
          /\ db.task_versions[Len(db.task_versions) - 1].task_id # t
====
